---- MODULE Spec2Model ----
(***************************************************************************)
(* A model of aiNovel: the cost ledger (llm/cost_tracker.py), the          *)
(* workflow orchestrator (workflow/orchestrator.py) with the generators it *)
(* drives, and the pipeline runner (workflow/pipeline_runner.py).          *)
(*                                                                         *)
(* Money is counted in whole units (one unit = the smallest cost the       *)
(* model distinguishes); the comparisons of the code are kept as written.  *)
(***************************************************************************)
EXTENDS Integers, Sequences, FiniteSets, TLC

(***************************************************************************)
(* Bounds of the model.                                                    *)
(***************************************************************************)
MaxCost == 2
MaxBudget == 3
MaxCalls == 3
MaxDays == 2
NumThreads == 2
MaxChapters == 2
MaxVolumes == 2
MaxWorkers == 2
MaxRuns == 2
MaxRewrites == 1
MaxParagraphs == 2
MaxItems == 2
MaxBuilds == 2
MaxRangeLen == 5
MaxArcs == 2
MaxProfiles == 3
MaxOrder == 4

VARIABLES
    \* ---- cost ledger (CostTracker) ----
    daily_budget,   \* CostTracker.daily_budget
    today,          \* the calendar day date.today() returns
    records,        \* CostTracker.records: day key -> day record
    ledger_last,    \* the last ledger call and its outcome
    \* ---- chapter write path (ChapterGenerator) ----
    provider_calls, \* number of llm_client.generate calls made so far
    write_last,     \* the last write call and its outcome
    \* ---- concurrent add_cost (threads sharing one CostTracker) ----
    heap,           \* day-record objects: object id -> record
    cur,            \* the object records[today] refers to, or NoObj
    tpc,            \* thread -> position inside add_cost
    tcost,          \* thread -> the cost argument of its call
    tref,           \* thread -> the object its local today_record refers to
    ttmp,           \* thread -> the operand it loaded for a pending +=
    \* ---- the project (Novel row) and its chapters (Chapter rows) ----
    workflow_status,    \* Novel.workflow_status
    current_step,       \* Novel.current_step
    description,        \* Novel.description: "" or the seed idea
    planning_content,   \* Novel.planning_content
    world_building_raw, \* novel.world_building_raw
    outline_raw,        \* novel.outline_raw
    num_characters,     \* number of Character rows of the novel
    num_volumes,        \* number of Volume rows of the novel
    chapters,           \* Chapter rows in (volume, chapter) order: id -> row
    wf_last,            \* the last orchestrator call and its outcome
    \* ---- PipelineRunner.run ----
    plan,           \* run()'s locals from_step, to_step, chapter_range, regenerate,
                    \* max_workers as lines 162-166 leave them
    pc,             \* where the thread that called run() stands
    run_error,      \* the exception run() raised, or "none"
    runs,           \* number of run() calls started so far
    run_limit,      \* number of run() calls the caller makes in all
    chapter_infos,  \* the batch: chapter ids in (volume, chapter) order
    idx,            \* position of the serial loop in chapter_infos
    result,         \* the PipelineResult of the current run
    step4_failed,   \* _run_batch_parallel's step4_failed set
    fut4,           \* chapter id -> state of its _worker_step4 future
    fut5,           \* chapter id -> state of its _worker_step5 future
    log4,           \* chapter id -> the _run_step4 executions on it, oldest first
    log5,           \* chapter id -> the _run_step5 executions on it, oldest first
    log3,           \* the _run_step3 executions on the project, oldest first
    orch,           \* the orchestrator the runner was constructed with
    \* ---- ChapterRewriter on one chapter ----
    body,           \* Chapter.content as text
    history_file,   \* the text of the chapter's rewrite-history file
    rewrites,       \* number of history records appended by this process
    rw_last,        \* the last rewriter call and its outcome
    rw_prev,        \* the rewriter call before it, if it was a rewrite that returned
    chapter_summary, \* Chapter.summary of that chapter, with the body it was made from
    \* ---- one generate call of a provider client ----
    gen,            \* the client, where the call stands, its attempts so far
    \* ---- the characters and world_data tables ----
    db_rows,        \* the rows the database holds (committed)
    sess_rows,      \* the rows as the caller's session sees them
    txn,            \* "failed" while an exception travels to the session scope's end
    builds,         \* number of build_world calls so far
    wb_last,        \* the last build_world call and its outcome
    \* ---- one outline generation ----
    og,             \* generate_outline: where it stands, what it sent and heard
    volume_rows,    \* the Volume rows with their Chapter rows, as save_outline wrote them
    outline_raw_text, \* the text in Novel.outline_raw
    \* ---- the context bundle ----
    lore,           \* the project's stored character, world and plot-arc entries
    bundle_last,    \* the last bundle call and its outcome
    \* ---- one parse_chapter_range call ----
    range_text,     \* the chapter_range argument, as text
    range_total,    \* the total argument
    range_last,     \* the call's outcome, once made
    \* ---- the plot_arcs table ----
    plot_arcs,      \* arc id -> the PlotArc row: status, planted_chapter, resolved_chapter
    arc_last,       \* the last tracker call and the status change it made
    \* ---- the style_profiles table ----
    profiles,       \* profile id -> its novel_id and is_active
    style_last,     \* the last style-profile call and its outcome
    \* ---- the recap of the chapters before ----
    stored,         \* chapter order -> the lengths of its content and cached summary
    recap_last      \* the last build_previous_context call and the texts it emitted

ledgerVars == <<daily_budget, today, records, ledger_last>>
writeVars == <<provider_calls, write_last>>
concVars == <<heap, cur, tpc, tcost, tref, ttmp>>
novelVars == <<workflow_status, current_step, description, planning_content,
               world_building_raw, outline_raw, num_characters, num_volumes>>
pipeVars == <<plan, pc, run_error, runs, run_limit, chapter_infos, idx, result, step4_failed,
              fut4, fut5, log4, log5, log3, orch>>
rewriteVars == <<body, history_file, rewrites, rw_last, rw_prev, chapter_summary>>
worldVars == <<db_rows, sess_rows, txn, builds, wb_last>>
outlineVars == <<og, volume_rows, outline_raw_text>>
bundleVars == <<lore, bundle_last>>
rangeVars == <<range_text, range_total, range_last>>
arcVars == <<plot_arcs, arc_last>>
styleVars == <<profiles, style_last>>
recapVars == <<stored, recap_last>>
vars == <<ledgerVars, writeVars, concVars, novelVars, chapters, wf_last, pipeVars, rewriteVars,
          gen, worldVars, outlineVars, bundleVars, rangeVars, arcVars,
                   styleVars, recapVars>>

Days == 1..MaxDays
Costs == 0..MaxCost
Budgets == 1..MaxBudget
\* usage["total_tokens"] of a call
TokenCounts == {2}
Threads == 1..NumThreads
\* an id no day-record object has
NoObj == NumThreads + 1

(***************************************************************************)
(* CostTracker, one call at a time.                                        *)
(***************************************************************************)
\* the record add_cost creates for a day it has no key for
EmptyDayRecord == [total_cost |-> 0, total_tokens |-> 0, call_count |-> 0, calls |-> <<>>]

\* get_today_cost: records.get(today_key, {}).get("total_cost", 0.0)
get_today_cost(recs, day) ==
    IF day \in DOMAIN recs THEN recs[day].total_cost ELSE 0

\* get_today_remaining: max(0.0, daily_budget - get_today_cost())
get_today_remaining(recs, day, budget) ==
    IF budget - get_today_cost(recs, day) > 0 THEN budget - get_today_cost(recs, day) ELSE 0

\* check_budget as it would read with the comparison dropped
check_budget_always(today_cost, estimated_cost, budget) == TRUE

\* check_budget: (today_cost + estimated_cost) <= self.daily_budget
check_budget(today_cost, estimated_cost, budget) ==
    today_cost + estimated_cost <= budget

\* the body of add_cost after the budget check: create the day record when
\* the key is missing, append the call record, update the three aggregates
AppendCall(recs, day, cost, tokens) ==
    LET old == IF day \in DOMAIN recs THEN recs[day] ELSE EmptyDayRecord
        new == [total_cost |-> old.total_cost + cost,
                total_tokens |-> old.total_tokens + tokens,
                call_count |-> old.call_count + 1,
                calls |-> Append(old.calls, [cost |-> cost, tokens |-> tokens])]
    IN  [d \in (DOMAIN recs) \cup {day} |-> IF d = day THEN new ELSE recs[d]]

\* the number of call records the ledger holds, over all days
RECURSIVE CallsOver(_, _)
CallsOver(recs, days) ==
    IF days = {} THEN 0
    ELSE LET d == CHOOSE x \in days : TRUE
         IN  recs[d].call_count + CallsOver(recs, days \ {d})

TotalCalls(recs) == CallsOver(recs, DOMAIN recs)

\* add_cost(cost, usage, ...): raises BudgetExceededError or appends
add_cost(cost, tokens) ==
    /\ TotalCalls(records) < MaxCalls
    /\ LET ok == check_budget(get_today_cost(records, today), cost, daily_budget)
       IN  /\ records' = IF ok THEN AppendCall(records, today, cost, tokens) ELSE records
           /\ ledger_last' = [op |-> "add_cost", raised |-> ~ok, cost |-> cost,
                              pre_total |-> get_today_cost(records, today),
                              budget |-> daily_budget, before |-> records]
    /\ UNCHANGED <<daily_budget, today>>

\* reset_budget(new_budget): rejects non-positive values
reset_budget(new_budget) ==
    /\ IF new_budget <= 0
          THEN /\ daily_budget' = daily_budget
               /\ ledger_last' = [op |-> "reset_budget", raised |-> TRUE, cost |-> 0,
                                  pre_total |-> get_today_cost(records, today),
                                  budget |-> daily_budget, before |-> records]
          ELSE /\ daily_budget' = new_budget
               /\ ledger_last' = [op |-> "reset_budget", raised |-> FALSE, cost |-> 0,
                                  pre_total |-> get_today_cost(records, today),
                                  budget |-> daily_budget, before |-> records]
    /\ UNCHANGED <<today, records>>

\* clear_today(): drops today's key when present
clear_today ==
    /\ today \in DOMAIN records
    /\ records' = [d \in (DOMAIN records) \ {today} |-> records[d]]
    /\ ledger_last' = [op |-> "clear_today", raised |-> FALSE, cost |-> 0,
                       pre_total |-> get_today_cost(records, today),
                       budget |-> daily_budget, before |-> records]
    /\ UNCHANGED <<daily_budget, today>>

\* the calendar moves on: get_today_key() returns the next day's key
NextDay ==
    /\ today < MaxDays
    /\ today' = today + 1
    /\ UNCHANGED <<daily_budget, records, ledger_last>>

NoLedgerCall == [op |-> "none", raised |-> FALSE, cost |-> 0, pre_total |-> 0,
                 budget |-> 0, before |-> <<>>]

(***************************************************************************)
(* ContextCompressor.build_context_bundle and its caller in                *)
(* ChapterGenerator.generate_chapter. A stored entry is a name and whether *)
(* one of its keywords occurs in the scan text.                            *)
(***************************************************************************)
\* a Python call with keyword arguments binds only when the function has a
\* parameter for each of them; TypeError otherwise
binds(parameters, keywords) == keywords \subseteq parameters

\* build_context_bundle's signature, lines 108-119
build_context_bundle_parameters ==
    {"volume_id", "current_order", "window_size", "token_budget", "novel_id", "scan_text",
     "embedding_api_key", "embedding_api_base", "plot_arc_top_k"}

\* the keywords generate_chapter passes, chapter_generator.py lines 97-105
generate_chapter_keywords ==
    {"volume_id", "current_order", "window_size", "token_budget", "novel_id",
     "character_names", "world_keywords"}

\* the attributes CharacterDatabase defines that the bundle code reads:
\* get_memory_cards is not among the methods of character_db.py
CharacterDatabase_has(attribute) == attribute \in {"list_characters", "get_character_memories"}

\* seq[:n]
Take(seq, n) == SubSeq(seq, 1, IF Len(seq) < n THEN Len(seq) ELSE n)

IsHit(entry) == entry.hit

\* LorebookEngine.scan_and_format: the entries a keyword of which occurs in
\* the text, at most max_world_entries / max_character_entries of them
scan_and_format(entries, limit) == Take(SelectSeq(entries, IsHit), limit)

max_world_entries == 8
max_character_entries == 5
plot_arc_top_k == 5

EmptyBundle(previous_context) ==
    [previous_context |-> previous_context, character_memory_cards |-> <<>>,
     world_memory_cards |-> <<>>, plot_arc_cards |-> <<>>]

NoBundleCall == [op |-> "none", raised |-> "none", scanned |-> FALSE, fails |-> {},
                 bundle |-> EmptyBundle("")]

BundleIdle ==
    /\ lore = [characters |-> <<>>, world |-> <<>>, arcs |-> <<>>]
    /\ bundle_last = NoBundleCall

\* lines 182-202: RAGRetriever.retrieve or PlotArcTracker.get_active_cards
\* inside try / except Exception: a failure leaves plot_arc_cards = []
plot_arc_cards(arcs, scan_text, fails) ==
    IF "plot_arcs" \in fails THEN [raised |-> FALSE, cards |-> <<>>]
    ELSE [raised |-> FALSE,
          cards |-> IF scan_text THEN scan_and_format(arcs, plot_arc_top_k)
                    ELSE Take(arcs, plot_arc_top_k)]

\* build_context_bundle(volume_id, current_order, ..., novel_id, scan_text):
\* novel_id given or read from the volume, scan_text given or not, fails the
\* retrievals that raise when they are called
build_context_bundle(novel_id_given, volume_found, scan_text, fails) ==
    LET previous_context == "recap"
        resolved == novel_id_given \/ volume_found
        done(raised, bundle) ==
            bundle_last' = [op |-> "build_context_bundle", raised |-> raised,
                            scanned |-> scan_text, fails |-> fails, bundle |-> bundle]
        arcs == plot_arc_cards(lore.arcs, scan_text, fails)
    IN  /\ UNCHANGED lore
        /\ IF ~resolved THEN done("none", EmptyBundle(previous_context))
           ELSE IF scan_text /\ "lorebook" \in fails
              THEN done("Exception", EmptyBundle(""))
           ELSE IF ~scan_text /\ ~CharacterDatabase_has("get_memory_cards")
              THEN done("AttributeError", EmptyBundle(""))
           ELSE IF ~scan_text /\ ("characters" \in fails \/ "world" \in fails)
              THEN done("Exception", EmptyBundle(""))
           ELSE IF arcs.raised THEN done("Exception", EmptyBundle(""))
           ELSE done("none",
                     [previous_context |-> previous_context,
                      character_memory_cards |->
                          IF scan_text THEN scan_and_format(lore.characters, max_character_entries)
                          ELSE lore.characters,
                      world_memory_cards |->
                          IF scan_text THEN scan_and_format(lore.world, max_world_entries)
                          ELSE Take(lore.world, max_world_entries),
                      plot_arc_cards |-> arcs.cards])

\* generate_chapter, lines 92-119, what its step 6 raises: the bundle call
\* with keywords build_context_bundle does not take, or get_memory_cards on
\* a CharacterDatabase
generate_chapter_context(use_previous_context) ==
    IF use_previous_context
       THEN IF binds(build_context_bundle_parameters, generate_chapter_keywords)
               THEN "none" ELSE "TypeError"
       ELSE IF CharacterDatabase_has("get_memory_cards") THEN "none" ELSE "AttributeError"

\* generate_chapter(chapter_id, use_previous_context=...) up to its prompt
generate_chapter(use_previous_context) ==
    /\ UNCHANGED lore
    /\ bundle_last' = [op |-> "generate_chapter",
                       raised |-> generate_chapter_context(use_previous_context),
                       scanned |-> FALSE, fails |-> {}, bundle |-> EmptyBundle("")]

(***************************************************************************)
(* The write path: ChapterGenerator.generate_chapter calls                 *)
(* llm_client.generate directly; no line of it, nor of the provider        *)
(* clients, reads or writes the CostTracker.                               *)
(***************************************************************************)
ProviderOutcomes == {"ok", "raise"}

\* OpenAIClient.generate: one provider request; a transport failure is
\* re-raised as an LLMError subclass, a reply carries its computed cost
OpenAIClient_generate(outcome) ==
    IF outcome = "ok" THEN "ok" ELSE "LLMError"

\* ChapterGenerator.generate_and_save(chapter_id): generate_chapter (with
\* use_previous_context left at its default, True: the context step comes
\* before the provider call), then save_chapter_content overwrites
\* chapter.content with the reply
ChapterGenerator_generate_and_save(c, outcome, cost) ==
    LET context == generate_chapter_context(TRUE)
        raised == IF context # "none" THEN context
                  ELSE IF OpenAIClient_generate(outcome) = "ok" THEN "none"
                  ELSE OpenAIClient_generate(outcome)
    IN  /\ c \in DOMAIN chapters
        /\ provider_calls < MaxCalls
        /\ provider_calls' = IF context = "none" THEN provider_calls + 1 ELSE provider_calls
        /\ chapters' = IF raised = "none"
                          THEN [chapters EXCEPT ![c].content = "body"] ELSE chapters
        /\ write_last' = [op |-> "write",
                          raised |-> raised,
                          cost |-> cost,
                          pre_total |-> get_today_cost(records, today),
                          budget |-> daily_budget,
                          calls_before |-> provider_calls,
                          body_before |-> chapters[c].content,
                          records_before |-> records]

NoWriteCall == [op |-> "none", raised |-> "none", cost |-> 0, pre_total |-> 0,
                budget |-> 0, calls_before |-> 0, body_before |-> "",
                records_before |-> <<>>]

(***************************************************************************)
(* CostTracker.add_cost run by several threads on the one shared tracker.  *)
(* The class holds no lock, so a thread switch may fall between any two    *)
(* reads or writes of the shared dictionaries; each position below is one  *)
(* such read or write.                                                     *)
(***************************************************************************)
ObjIds == {0} \cup Threads

\* the total get_today_cost reads through records[today]
ConcTodayCost == IF cur = NoObj THEN 0 ELSE heap[cur].total_cost

\* if not self.check_budget(cost): raise BudgetExceededError
ConcCheck(t) ==
    /\ tpc[t] = "start"
    /\ tpc' = [tpc EXCEPT ![t] =
                 IF check_budget(ConcTodayCost, tcost[t], daily_budget)
                    THEN "test" ELSE "raised"]
    /\ UNCHANGED <<heap, cur, tcost, tref, ttmp>>

\* if today_key not in self.records
ConcTest(t) ==
    /\ tpc[t] = "test"
    /\ tpc' = [tpc EXCEPT ![t] = IF cur = NoObj THEN "create" ELSE "lookup"]
    /\ UNCHANGED <<heap, cur, tcost, tref, ttmp>>

\* self.records[today_key] = {... fresh record ...}
ConcCreate(t) ==
    /\ tpc[t] = "create"
    /\ heap' = [heap EXCEPT ![t] = EmptyDayRecord]
    /\ cur' = t
    /\ tpc' = [tpc EXCEPT ![t] = "lookup"]
    /\ UNCHANGED <<tcost, tref, ttmp>>

\* today_record = self.records[today_key]
ConcLookup(t) ==
    /\ tpc[t] = "lookup"
    /\ tref' = [tref EXCEPT ![t] = cur]
    /\ tpc' = [tpc EXCEPT ![t] = "append"]
    /\ UNCHANGED <<heap, cur, tcost, ttmp>>

\* today_record["calls"].append(call_record)
ConcAppend(t) ==
    /\ tpc[t] = "append"
    /\ heap' = [heap EXCEPT ![tref[t]].calls =
                   Append(@, [cost |-> tcost[t], tokens |-> 2])]
    /\ tpc' = [tpc EXCEPT ![t] = "load_cost"]
    /\ UNCHANGED <<cur, tcost, tref, ttmp>>

\* today_record["total_cost"] += cost        (the read)
ConcLoadCost(t) ==
    /\ tpc[t] = "load_cost"
    /\ ttmp' = [ttmp EXCEPT ![t] = heap[tref[t]].total_cost]
    /\ tpc' = [tpc EXCEPT ![t] = "store_cost"]
    /\ UNCHANGED <<heap, cur, tcost, tref>>

\* today_record["total_cost"] += cost        (the write)
ConcStoreCost(t) ==
    /\ tpc[t] = "store_cost"
    /\ heap' = [heap EXCEPT ![tref[t]].total_cost = ttmp[t] + tcost[t]]
    /\ tpc' = [tpc EXCEPT ![t] = "load_tokens"]
    /\ UNCHANGED <<cur, tcost, tref, ttmp>>

\* today_record["total_tokens"] += usage.get("total_tokens", 0)  (the read)
ConcLoadTokens(t) ==
    /\ tpc[t] = "load_tokens"
    /\ ttmp' = [ttmp EXCEPT ![t] = heap[tref[t]].total_tokens]
    /\ tpc' = [tpc EXCEPT ![t] = "store_tokens"]
    /\ UNCHANGED <<heap, cur, tcost, tref>>

\* today_record["total_tokens"] += usage.get("total_tokens", 0)  (the write)
ConcStoreTokens(t) ==
    /\ tpc[t] = "store_tokens"
    /\ heap' = [heap EXCEPT ![tref[t]].total_tokens = ttmp[t] + 2]
    /\ tpc' = [tpc EXCEPT ![t] = "load_count"]
    /\ UNCHANGED <<cur, tcost, tref, ttmp>>

\* today_record["call_count"] += 1           (the read)
ConcLoadCount(t) ==
    /\ tpc[t] = "load_count"
    /\ ttmp' = [ttmp EXCEPT ![t] = heap[tref[t]].call_count]
    /\ tpc' = [tpc EXCEPT ![t] = "store_count"]
    /\ UNCHANGED <<heap, cur, tcost, tref>>

\* today_record["call_count"] += 1           (the write), then the return
ConcStoreCount(t) ==
    /\ tpc[t] = "store_count"
    /\ heap' = [heap EXCEPT ![tref[t]].call_count = ttmp[t] + 1]
    /\ ttmp' = [ttmp EXCEPT ![t] = 0]
    /\ tpc' = [tpc EXCEPT ![t] = "returned"]
    /\ UNCHANGED <<cur, tcost, tref>>

ConcIdle ==
    /\ heap = [o \in ObjIds |-> EmptyDayRecord]
    /\ cur = NoObj
    /\ tpc = [t \in Threads |-> "off"]
    /\ tcost = [t \in Threads |-> 0]
    /\ tref = [t \in Threads |-> NoObj]
    /\ ttmp = [t \in Threads |-> 0]

(***************************************************************************)
(* WorkflowOrchestrator: the six stages and the edit operations on the one *)
(* project.  A provider reply is "ok" (parseable), "unparsable", or the    *)
(* call raises.                                                            *)
(***************************************************************************)
NULL == "NULL"
ReplyOutcomes == {"ok", "unparsable", "raise"}

\* the row OutlineGenerator.save_outline creates: content holds the chapter's
\* outline text ("# 章节梗概 ... # 关键事件 ..."), never the empty string
OutlineChapterRow == [detail_outline |-> NULL, content |-> "outline"]

\* a row created with content="" (chapter_crud.create as the tests' fixture)
BlankChapterRow == [detail_outline |-> NULL, content |-> ""]

\* an outline row after save_detail_outline has stored a parsed detail outline
DetailedChapterRow == [detail_outline |-> "json", content |-> "outline"]

ChapterIds == DOMAIN chapters

Cursor == [status |-> workflow_status, step |-> current_step]

WfResult(op, k, raised, parse_failed) ==
    [op |-> op, stage |-> k, raised |-> raised, parse_failed |-> parse_failed,
     step_before |-> current_step, status_before |-> workflow_status]

NoWfCall == [op |-> "none", stage |-> 0, raised |-> FALSE, parse_failed |-> FALSE,
             step_before |-> 0, status_before |-> "created"]

SetCursor(c) ==
    /\ workflow_status' = c.status
    /\ current_step' = c.step

\* step_1_planning: the idea check, then planning_gen.generate_planning is
\* called with genre_id= and plot_ids=, keywords PlanningGenerator.
\* generate_planning(initial_idea, temperature, max_tokens) does not take:
\* the call raises TypeError before any provider request or assignment
step_1_planning(initial_idea) ==
    /\ wf_last' = WfResult("step_1_planning", 1, TRUE, FALSE)
    /\ UNCHANGED <<novelVars, chapters, provider_calls>>

\* step_1_update: stores the text as given and rewrites the cursor
step_1_update_cursor(cursor) == [status |-> "planning", step |-> 1]

step_1_update(text) ==
    /\ planning_content' = text
    /\ SetCursor(step_1_update_cursor(Cursor))
    /\ wf_last' = WfResult("step_1_update", 1, FALSE, FALSE)
    /\ UNCHANGED <<description, world_building_raw, outline_raw, num_characters,
                   num_volumes, chapters, provider_calls>>

\* step_2_update: stores the text in world_building_raw and rewrites the cursor
step_2_update_cursor(cursor) == [status |-> "world_building", step |-> 2]

step_2_update(text) ==
    /\ world_building_raw' = text
    /\ SetCursor(step_2_update_cursor(Cursor))
    /\ wf_last' = WfResult("step_2_update", 2, FALSE, FALSE)
    /\ UNCHANGED <<description, planning_content, outline_raw, num_characters,
                   num_volumes, chapters, provider_calls>>

\* step_2_world_building, lines 238-240: the cursor is rewritten whether or
\* not the reply parsed
step_2_cursor(cursor, parse_failed) == [status |-> "world_building", step |-> 2]

\* step_2_world_building: WorldBuildingGenerator.generate_and_save, the raw
\* text kept on a parse failure, then the cursor
step_2_world_building(outcome, n) ==
    /\ provider_calls < MaxCalls
    /\ IF planning_content = NULL
          THEN /\ wf_last' = WfResult("step_2_world_building", 2, TRUE, FALSE)
               /\ UNCHANGED <<novelVars, provider_calls>>
          ELSE /\ provider_calls' = provider_calls + 1
               /\ IF outcome = "raise"
                     THEN /\ wf_last' = WfResult("step_2_world_building", 2, TRUE, FALSE)
                          /\ UNCHANGED novelVars
                     ELSE /\ world_building_raw' =
                                IF outcome = "unparsable" THEN "raw" ELSE world_building_raw
                          /\ num_characters' =
                                IF outcome = "unparsable" THEN num_characters ELSE n
                          /\ SetCursor(step_2_cursor(Cursor, outcome = "unparsable"))
                          /\ wf_last' = WfResult("step_2_world_building", 2, FALSE,
                                                 outcome = "unparsable")
                          /\ UNCHANGED <<description, planning_content, outline_raw,
                                         num_volumes>>
    /\ UNCHANGED chapters

\* step_3_outline, lines 273-276, with the update skipped on a parse failure
step_3_cursor_keep_on_parse_failure(cursor, parse_failed) ==
    IF parse_failed THEN cursor ELSE [status |-> "outline", step |-> 3]

\* step_3_outline, lines 273-276: "解析失败时也推进", the cursor is rewritten
\* on a parse failure too
step_3_cursor(cursor, parse_failed) == [status |-> "outline", step |-> 3]

\* OutlineGenerator.save_outline: one Volume row and n Chapter rows appended
\* (earlier volumes and chapters are kept)
save_outline(rows, n) == rows \o [i \in 1..n |-> OutlineChapterRow]

\* step_3_outline: OutlineGenerator.generate_and_save, then the cursor.
\* outcome "empty" is a reply that parses to {"volumes": []}: save_outline
\* raises ValueError
step_3_outline(outcome, n) ==
    /\ provider_calls < MaxCalls
    /\ outcome = "ok" => (num_volumes < MaxVolumes /\ Len(chapters) + n <= MaxChapters)
    /\ IF num_characters = 0
          THEN /\ wf_last' = WfResult("step_3_outline", 3, TRUE, FALSE)
               /\ UNCHANGED <<novelVars, chapters, provider_calls>>
          ELSE /\ provider_calls' = provider_calls + 1
               /\ IF outcome \in {"raise", "empty"}
                     THEN /\ wf_last' = WfResult("step_3_outline", 3, TRUE, FALSE)
                          /\ UNCHANGED <<novelVars, chapters>>
                     ELSE /\ outline_raw' = IF outcome = "unparsable" THEN "raw" ELSE outline_raw
                          /\ num_volumes' = IF outcome = "unparsable"
                                               THEN num_volumes ELSE num_volumes + 1
                          /\ chapters' = IF outcome = "unparsable"
                                            THEN chapters ELSE save_outline(chapters, n)
                          /\ SetCursor(step_3_cursor(Cursor, outcome = "unparsable"))
                          /\ wf_last' = WfResult("step_3_outline", 3, FALSE,
                                                 outcome = "unparsable")
                          /\ UNCHANGED <<description, planning_content,
                                         world_building_raw, num_characters>>

\* DetailOutlineGenerator.generate_and_save: the parsed outline as JSON, or
\* the raw reply when it did not parse; either way a non-null string
save_detail_outline(row, outcome) ==
    [row EXCEPT !.detail_outline = IF outcome = "ok" THEN "json" ELSE "raw"]

\* the stage tag written without the step
step_4_cursor_status_only(cursor) ==
    IF cursor.step < 4 THEN [status |-> "detail_outline", step |-> cursor.step] ELSE cursor

\* step_4_detail_outline, lines 310-314
step_4_cursor(cursor) ==
    IF cursor.step < 4 THEN [status |-> "detail_outline", step |-> 4] ELSE cursor

\* step_4_detail_outline(chapter_id)
step_4_detail_outline(c, outcome) ==
    /\ provider_calls < MaxCalls
    /\ IF c \notin ChapterIds
          THEN /\ wf_last' = WfResult("step_4_detail_outline", 4, TRUE, FALSE)
               /\ UNCHANGED <<novelVars, chapters, provider_calls>>
          ELSE /\ provider_calls' = provider_calls + 1
               /\ IF outcome = "raise"
                     THEN /\ wf_last' = WfResult("step_4_detail_outline", 4, TRUE, FALSE)
                          /\ UNCHANGED <<novelVars, chapters>>
                     ELSE /\ chapters' = [chapters EXCEPT ![c] = save_detail_outline(@, outcome)]
                          /\ SetCursor(step_4_cursor(Cursor))
                          /\ wf_last' = WfResult("step_4_detail_outline", 4, FALSE,
                                                 outcome = "unparsable")
                          /\ UNCHANGED <<description, planning_content, world_building_raw,
                                         outline_raw, num_characters, num_volumes>>

\* step_4_batch_detail_outline, lines 369-372
step_4_batch_cursor(cursor) == [status |-> "detail_outline", step |-> 4]

\* step_4_batch_detail_outline: every chapter in turn, a failure recorded and
\* passed over; outcomes gives the provider's reply for each chapter
step_4_batch_detail_outline(outcomes) ==
    /\ provider_calls + Len(chapters) <= MaxCalls
    /\ IF chapters = <<>>
          THEN /\ wf_last' = WfResult("step_4_batch_detail_outline", 4, TRUE, FALSE)
               /\ UNCHANGED <<novelVars, chapters, provider_calls>>
          ELSE /\ provider_calls' = provider_calls + Len(chapters)
               /\ chapters' = [c \in ChapterIds |->
                                 IF outcomes[c] = "raise" THEN chapters[c]
                                 ELSE save_detail_outline(chapters[c], outcomes[c])]
               /\ SetCursor(step_4_batch_cursor(Cursor))
               /\ wf_last' = WfResult("step_4_batch_detail_outline", 4, FALSE, FALSE)
               /\ UNCHANGED <<description, planning_content, world_building_raw,
                              outline_raw, num_characters, num_volumes>>

\* step_5_writing: chapter_gen.generate_and_save is called with authors_note=,
\* a keyword ChapterGenerator.generate_and_save(chapter_id, style_guide,
\* word_count_min, word_count_max, temperature, max_tokens) does not take: the
\* call raises TypeError before generate_chapter runs, so no provider request
\* is made, nothing is saved and lines 427-431 are never reached
step_5_writing(c) ==
    /\ wf_last' = WfResult("step_5_writing", 5, TRUE, FALSE)
    /\ UNCHANGED <<novelVars, chapters, provider_calls>>

\* step_6_quality_check, lines 464-468
step_6_cursor(cursor) ==
    IF cursor.step < 6 THEN [status |-> "quality_check", step |-> 6] ELSE cursor

\* step_6_quality_check: check_chapter refuses an empty content, and a reply
\* that does not parse raises ValueError
step_6_quality_check(c, outcome) ==
    /\ provider_calls < MaxCalls
    /\ IF c \notin ChapterIds \/ chapters[c].content = ""
          THEN /\ wf_last' = WfResult("step_6_quality_check", 6, TRUE, FALSE)
               /\ UNCHANGED <<novelVars, provider_calls>>
          ELSE /\ provider_calls' = provider_calls + 1
               /\ IF outcome # "ok"
                     THEN /\ wf_last' = WfResult("step_6_quality_check", 6, TRUE, FALSE)
                          /\ UNCHANGED novelVars
                     ELSE /\ SetCursor(step_6_cursor(Cursor))
                          /\ wf_last' = WfResult("step_6_quality_check", 6, FALSE, FALSE)
                          /\ UNCHANGED <<description, planning_content, world_building_raw,
                                         outline_raw, num_characters, num_volumes>>
    /\ UNCHANGED chapters

\* step_6_batch_quality_check, lines 495-498
step_6_batch_cursor(cursor) == [status |-> "quality_check", step |-> 6]

\* the chapters batch_check visits: those with a non-empty content
ChaptersWithContent == {c \in ChapterIds : chapters[c].content # ""}

\* step_6_batch_quality_check: batch_check raises when no chapter has content,
\* else checks each one, a failure recorded and passed over
step_6_batch_quality_check ==
    /\ provider_calls + Cardinality(ChaptersWithContent) <= MaxCalls
    /\ IF ChaptersWithContent = {}
          THEN /\ wf_last' = WfResult("step_6_batch_quality_check", 6, TRUE, FALSE)
               /\ UNCHANGED <<novelVars, provider_calls>>
          ELSE /\ provider_calls' = provider_calls + Cardinality(ChaptersWithContent)
               /\ SetCursor(step_6_batch_cursor(Cursor))
               /\ wf_last' = WfResult("step_6_batch_quality_check", 6, FALSE, FALSE)
               /\ UNCHANGED <<description, planning_content, world_building_raw,
                              outline_raw, num_characters, num_volumes>>
    /\ UNCHANGED chapters

\* mark_completed: the stage tag alone
mark_completed ==
    /\ workflow_status' = "completed"
    /\ wf_last' = WfResult("mark_completed", 0, FALSE, FALSE)
    /\ UNCHANGED <<current_step, description, planning_content, world_building_raw,
                   outline_raw, num_characters, num_volumes, chapters, provider_calls>>

(***************************************************************************)
(* PipelineRunner: run(session, novel_id, plan) over steps 3, 4 and 5.     *)
(* The runner drives the orchestrator above; a chapter's steps 4 and 5 are *)
(* one task each.                                                          *)
(***************************************************************************)
PIPELINE_STEPS == {3, 4, 5}

\* a chapter_range: <<>> for None or "", else the comma-separated parts in
\* order, each "N" (single), "N-M" (range) or text matching neither (bad)
Single(k) == [kind |-> "single", start |-> k, end |-> k]
Range(a, b) == [kind |-> "range", start |-> a, end |-> b]
BadPart == [kind |-> "bad", start |-> 0, end |-> 0]

\* range(start, end + 1)
range_list(start, end) == [i \in 1..(end - start + 1) |-> start + i - 1]

\* lines 96-109: the indices the parts name, in the order written, repeats kept
RECURSIVE extend_indices(_)
extend_indices(parts) ==
    IF parts = <<>> THEN <<>>
    ELSE range_list(Head(parts).start, Head(parts).end) \o extend_indices(Tail(parts))

\* lines 111-117: an index is kept the first time it is seen if it lies in
\* 1..total; kept holds the positions of the indices kept, and the result
\* lists them in the order of their positions
RECURSIVE in_order(_, _)
in_order(indices, kept) ==
    IF kept = {} THEN <<>>
    ELSE LET first == CHOOSE i \in kept : \A j \in kept : i <= j
         IN  <<indices[first]>> \o in_order(indices, kept \ {first})

\* every index within 1..total kept, repeats included
keep_in_range(indices, total) ==
    in_order(indices, {i \in DOMAIN indices : 1 <= indices[i] /\ indices[i] <= total})

dedup_filter(indices, total) ==
    in_order(indices, {i \in DOMAIN indices :
                          /\ 1 <= indices[i] /\ indices[i] <= total
                          /\ \A j \in 1..(i - 1) : indices[j] # indices[i]})

\* the list returned in the order it was filled
unsorted(items) == items

\* sorted(result)
RECURSIVE sorted(_)
sorted(items) ==
    IF items = <<>> THEN <<>>
    ELSE LET m == CHOOSE i \in DOMAIN items : \A j \in DOMAIN items : items[i] <= items[j]
         IN  <<items[m]>> \o sorted([i \in 1..(Len(items) - 1) |->
                                         IF i < m THEN items[i] ELSE items[i + 1]])

\* parse_chapter_range(chapter_range, total): the 1-based indices, without
\* duplicates, those outside 1..total dropped, ascending; ValueError on a part
\* of neither form or a range whose start exceeds its end
parse_chapter_range(chapter_range, total) ==
    IF chapter_range = <<>>
       THEN [error |-> FALSE, indices |-> [i \in 1..total |-> i]]
    ELSE IF \E i \in DOMAIN chapter_range :
               \/ chapter_range[i].kind = "bad"
               \/ chapter_range[i].start > chapter_range[i].end
       THEN [error |-> TRUE, indices |-> <<>>]
    ELSE [error |-> FALSE,
          indices |-> sorted(dedup_filter(extend_indices(chapter_range), total))]

\* _validate_plan(from_step, to_step): TRUE when it raises no ValueError
validate_plan(from_step, to_step) ==
    /\ from_step \in PIPELINE_STEPS
    /\ to_step \in PIPELINE_STEPS
    /\ from_step <= to_step

\* _collect_chapters(novel): the ids of all chapters by volume, then chapter order
collect_chapters(rows) == [i \in 1..Len(rows) |-> i]

\* TaskResult; stats_skipped stands for stats == {"skipped": True}
TaskResult(chapter_id, step, success, error, stats_skipped) ==
    [chapter_id |-> chapter_id, step |-> step, success |-> success,
     error |-> error, stats_skipped |-> stats_skipped]

\* PipelineResult as run() creates it
EmptyResult == [total |-> 0, succeeded |-> 0, failed |-> 0, skipped |-> 0,
                task_results |-> <<>>]

\* PipelineResult.to_dict()["failed_chapter_ids"]
failed_chapter_ids(res) ==
    LET keep(r) == ~r.success
    IN  [i \in DOMAIN SelectSeq(res.task_results, keep) |->
            SelectSeq(res.task_results, keep)[i].chapter_id]

\* one execution of _run_step4 / _run_step5 on a chapter: how it ended, the
\* regenerate flag it ran under, the run it belongs to, the provider calls made
LogEntry(kind, regenerate, calls) ==
    [kind |-> kind, regenerate |-> regenerate, run |-> runs, calls |-> calls]

Last(seq) == seq[Len(seq)]

\* the TaskResult _run_step4 / _run_step5 returns for an execution; an
\* exception that escaped the task is turned into a failed TaskResult by the
\* parallel collector (lines 380-389, 417-426)
TaskOf(c, step, entry) ==
    IF entry.kind = "skipped" THEN TaskResult(c, step, TRUE, "none", TRUE)
    ELSE IF entry.kind = "ok" THEN TaskResult(c, step, TRUE, "none", FALSE)
    ELSE TaskResult(c, step, FALSE, "exception", FALSE)

\* _run_step4's idempotence test with every chapter taken as not yet done
already_done_4_never(row) == FALSE

\* _run_step4, line 433: already_done = chapter.detail_outline is not None
already_done_4(row) == row.detail_outline # NULL

\* _run_step5, line 467: already_done = content is not None and len(content) > 0
already_done_5(row) == row.content # NULL /\ row.content # ""

\* _run_step4's try block with the except clause taken away
run_step4_result_uncaught(raised) == IF raised THEN "uncaught" ELSE "ok"

\* _run_step4, lines 444-461: try ... except Exception -> success=False
run_step4_result(raised) == IF raised THEN "failed" ELSE "ok"

\* _run_step5, lines 478-498: try ... except Exception -> success=False
run_step5_result(raised) == IF raised THEN "failed" ELSE "ok"

\* PipelineRunner(orchestrator): a WorkflowOrchestrator
RealOrchestrator == [kind |-> "real", step4_fail_ids |-> {}, step5_fail_ids |-> {}]

\* _make_orchestrator(step4_fail_ids, step5_fail_ids) of the tests: a MagicMock
\* whose steps touch neither the database nor a provider
MockOrchestrator(step4_fail, step5_fail) ==
    [kind |-> "mock", step4_fail_ids |-> step4_fail, step5_fail_ids |-> step5_fail]

\* fake_step3: returns a result dict
fake_step3 ==
    /\ wf_last' = WfResult("step_3_outline", 3, FALSE, FALSE)
    /\ UNCHANGED <<novelVars, chapters, provider_calls>>

\* fake_step4: raises RuntimeError for an id in step4_fail_ids
fake_step4(c) ==
    /\ wf_last' = WfResult("step_4_detail_outline", 4, c \in orch.step4_fail_ids, FALSE)
    /\ UNCHANGED <<novelVars, chapters, provider_calls>>

\* fake_step5: raises RuntimeError for an id in step5_fail_ids
fake_step5(c) ==
    /\ wf_last' = WfResult("step_5_writing", 5, c \in orch.step5_fail_ids, FALSE)
    /\ UNCHANGED <<novelVars, chapters, provider_calls>>

\* self._orch.step_3_outline / step_4_detail_outline / step_5_writing
orch_step_3_outline(outcome, n) ==
    IF orch.kind = "mock" THEN fake_step3 ELSE step_3_outline(outcome, n)

orch_step_4_detail_outline(c, outcome) ==
    IF orch.kind = "mock" THEN fake_step4(c) ELSE step_4_detail_outline(c, outcome)

orch_step_5_writing(c) ==
    IF orch.kind = "mock" THEN fake_step5(c) ELSE step_5_writing(c)

\* _run_step4(session, chapter, regenerate)
run_step4(c, regenerate, outcome) ==
    IF already_done_4(chapters[c]) /\ ~regenerate
       THEN /\ log4' = [log4 EXCEPT ![c] = Append(@, LogEntry("skipped", regenerate, 0))]
            /\ UNCHANGED <<novelVars, chapters, provider_calls, wf_last>>
       ELSE /\ orch_step_4_detail_outline(c, outcome)
            /\ log4' = [log4 EXCEPT ![c] =
                          Append(@, LogEntry(run_step4_result(wf_last'.raised), regenerate,
                                             provider_calls' - provider_calls))]

\* _run_step5(session, chapter, regenerate)
run_step5(c, regenerate) ==
    IF already_done_5(chapters[c]) /\ ~regenerate
       THEN /\ log5' = [log5 EXCEPT ![c] = Append(@, LogEntry("skipped", regenerate, 0))]
            /\ UNCHANGED <<novelVars, chapters, provider_calls, wf_last>>
       ELSE /\ orch_step_5_writing(c)
            /\ log5' = [log5 EXCEPT ![c] =
                          Append(@, LogEntry(run_step5_result(wf_last'.raised), regenerate,
                                             provider_calls' - provider_calls))]

\* a task appended to the results with only its success counted
collect_successes_only(res, task) ==
    [res EXCEPT !.task_results = Append(@, task),
                !.succeeded = IF task.success THEN @ + 1 ELSE @]

\* _collect(task), and lines 281-285, 301-305 of the serial loop
collect(res, task) ==
    [res EXCEPT !.task_results = Append(@, task),
                !.succeeded = IF task.success THEN @ + 1 ELSE @,
                !.failed = IF task.success THEN @ ELSE @ + 1]

\* the skip record counted among the failed tasks as well
record_skip_counted_failed(res, c) ==
    [res EXCEPT !.task_results =
                   Append(@, TaskResult(c, 5, FALSE, "step4_failed_skip_step5", FALSE)),
                !.failed = @ + 1,
                !.skipped = @ + 1]

\* lines 287-296 and 401-411: the step-5 record of a chapter whose step 4
\* failed ("步骤4失败，跳过步骤5"), and skipped += 1
record_skip(res, c) ==
    [res EXCEPT !.task_results =
                   Append(@, TaskResult(c, 5, FALSE, "step4_failed_skip_step5", FALSE)),
                !.skipped = @ + 1]

\* run() raises: nothing is returned
Raise(err) ==
    /\ pc' = "raised"
    /\ run_error' = err

\* the project of the runner's tests: volumes 1..2 of chapters 1..3 each
\* (range(1, 3) and range(1, 4)), run with three workers
FixtureVolumes == 2
FixtureChaptersPerVolume == 3
FixtureWorkers == 3
FixtureChapters == FixtureVolumes * FixtureChaptersPerVolume

\* the chapter ids a project of the model can hold
ChapterSlots == 1..(IF MaxChapters >= FixtureChapters THEN MaxChapters ELSE FixtureChapters)

NoFutures == [c \in ChapterSlots |-> "none"]
Targets == {chapter_infos[i] : i \in DOMAIN chapter_infos}

\* _run_step3, line 252: already_done = current_step >= 3 and len(volumes) > 0
already_done_3 == current_step >= 3 /\ num_volumes > 0

\* the serial loop never chosen: every batch goes to the executors
serial_path_never(max_workers) == FALSE

\* run(), line 203: if max_workers == 1 -> _run_batch_serial
serial_path(max_workers) == max_workers = 1

\* run(), lines 188-212, once step 3 is through: collect the chapters, parse
\* the range, fill result.total and enter the serial loop or the first
\* executor (whose futures are all submitted before any is collected)
start_batch ==
    LET all_chapters == collect_chapters(chapters')
        parsed == parse_chapter_range(plan'.chapter_range, Len(all_chapters))
        infos == [i \in DOMAIN parsed.indices |-> all_chapters[parsed.indices[i]]]
        in_batch(c) == \E i \in DOMAIN infos : infos[i] = c
    IN  IF all_chapters = <<>>
           THEN /\ Raise("InsufficientDataError")
                /\ UNCHANGED <<chapter_infos, fut4>>
                /\ result' = EmptyResult
        ELSE IF parsed.error
           THEN /\ Raise("ValueError")
                /\ UNCHANGED <<chapter_infos, fut4>>
                /\ result' = EmptyResult
        ELSE /\ chapter_infos' = infos
             /\ result' = [EmptyResult EXCEPT !.total = Len(infos)]
             /\ run_error' = "none"
             /\ IF serial_path(plan'.max_workers)
                   THEN /\ pc' = IF infos = <<>> THEN "returned" ELSE "serial4"
                        /\ fut4' = NoFutures
                   ELSE /\ pc' = "phase1"
                        /\ fut4' = [c \in ChapterSlots |->
                                      IF in_batch(c) /\ plan'.from_step <= 4 /\ 4 <= plan'.to_step
                                         THEN "queued" ELSE "none"]

\* the except clause of _run_step3 logging the error without raising it again
run_step3_raises_never(raised) == FALSE

\* _run_step3, lines 257-262: except Exception -> logger.error, raise
run_step3_raises(raised) == raised

\* the idempotence test of _run_step3 never met
skip_step3_never(done, regenerate) == FALSE

\* _run_step3, line 253: if already_done and not regenerate: return
skip_step3(done, regenerate) == done /\ ~regenerate

\* one execution of _run_step3: how it ended, the regenerate flag, whether the
\* project counted as done when it began, the run, the provider calls made
Step3Entry(kind, regenerate, done, calls) ==
    [kind |-> kind, regenerate |-> regenerate, already_done |-> done,
     run |-> runs + 1, calls |-> calls]

\* run(session, novel_id, plan) up to the first chapter task: the locals, the
\* plan check, the novel lookup, step 3 when the plan covers it, then the batch.
\* novel_exists is what novel_crud.get_by_id finds for novel_id
run(p, novel_exists) ==
    /\ pc \in {"idle", "returned", "raised"}
    /\ runs < run_limit
    /\ runs' = runs + 1
    /\ UNCHANGED run_limit
    /\ plan' = [p EXCEPT !.max_workers = IF p.max_workers >= 1 THEN p.max_workers ELSE 1]
    /\ idx' = 1
    /\ step4_failed' = {}
    /\ fut5' = NoFutures
    /\ UNCHANGED <<log4, log5>>
    /\ IF ~validate_plan(p.from_step, p.to_step)
          THEN /\ Raise("ValueError")
               /\ result' = EmptyResult
               /\ UNCHANGED <<novelVars, chapters, provider_calls, wf_last,
                              chapter_infos, fut4, log3>>
       ELSE IF ~novel_exists
          THEN /\ Raise("NovelNotFoundError")
               /\ result' = EmptyResult
               /\ UNCHANGED <<novelVars, chapters, provider_calls, wf_last,
                              chapter_infos, fut4, log3>>
       ELSE IF p.from_step <= 3 /\ 3 <= p.to_step /\ ~skip_step3(already_done_3, p.regenerate)
          THEN \E outcome3 \in ReplyOutcomes \cup {"empty"}, n3 \in 0..MaxChapters :
                  /\ orch_step_3_outline(outcome3, n3)
                  /\ log3' = Append(log3, Step3Entry(IF wf_last'.raised THEN "failed" ELSE "ok",
                                                     p.regenerate, already_done_3,
                                                     provider_calls' - provider_calls))
                  /\ IF run_step3_raises(wf_last'.raised)
                        THEN /\ Raise("step3")
                             /\ result' = EmptyResult
                             /\ UNCHANGED <<chapter_infos, fut4>>
                     ELSE IF p.to_step >= 4
                        THEN start_batch
                     ELSE /\ pc' = "returned"
                          /\ run_error' = "none"
                          /\ result' = EmptyResult
                          /\ UNCHANGED <<chapter_infos, fut4>>
       ELSE /\ UNCHANGED <<novelVars, chapters, provider_calls, wf_last>>
            /\ log3' = IF p.from_step <= 3 /\ 3 <= p.to_step
                          THEN Append(log3, Step3Entry("skipped", p.regenerate,
                                                       already_done_3, 0))
                          ELSE log3
            /\ IF p.to_step >= 4
                  THEN start_batch
                  ELSE /\ pc' = "returned"
                       /\ run_error' = "none"
                       /\ result' = EmptyResult
                       /\ UNCHANGED <<chapter_infos, fut4>>

\* the serial loop moves to the next chapter, or run() returns
next_chapter ==
    /\ idx' = idx + 1
    /\ pc' = IF idx + 1 > Len(chapter_infos) THEN "returned" ELSE "serial4"

\* _run_batch_serial, lines 279-297: the chapter's step 4
run_batch_serial_step4(outcome) ==
    /\ pc = "serial4"
    /\ UNCHANGED <<plan, runs, run_limit, log3, chapter_infos, step4_failed, fut4, fut5, log5>>
    /\ LET c == chapter_infos[idx]
       IN  IF plan.from_step <= 4 /\ 4 <= plan.to_step
              THEN /\ run_step4(c, plan.regenerate, outcome)
                   /\ LET task == TaskOf(c, 4, Last(log4'[c]))
                      IN  IF Last(log4'[c]).kind = "uncaught"
                             THEN /\ Raise("task")
                                  /\ UNCHANGED <<idx, result>>
                          ELSE IF task.success
                             THEN /\ result' = collect(result, task)
                                  /\ pc' = "serial5"
                                  /\ UNCHANGED <<idx, run_error>>
                          ELSE /\ result' = IF plan.to_step >= 5
                                               THEN record_skip(collect(result, task), c)
                                               ELSE collect(result, task)
                               /\ next_chapter
                               /\ UNCHANGED run_error
              ELSE /\ outcome = "ok"
                   /\ pc' = "serial5"
                   /\ UNCHANGED <<novelVars, chapters, provider_calls, wf_last, log4,
                                  idx, result, run_error>>

\* _run_batch_serial, lines 299-305: the chapter's step 5
run_batch_serial_step5 ==
    /\ pc = "serial5"
    /\ UNCHANGED <<plan, runs, run_limit, log3, chapter_infos, step4_failed, fut4, fut5, log4, run_error>>
    /\ LET c == chapter_infos[idx]
       IN  IF plan.from_step <= 5 /\ 5 <= plan.to_step
              THEN /\ run_step5(c, plan.regenerate)
                   /\ result' = collect(result, TaskOf(c, 5, Last(log5'[c])))
              ELSE UNCHANGED <<novelVars, chapters, provider_calls, wf_last, log5, result>>
    /\ next_chapter

\* ThreadPoolExecutor(max_workers): a queued task starts when a worker is free
Running(fut) == {c \in DOMAIN fut : fut[c] = "running"}

executor_start_step4(c) ==
    /\ fut4[c] = "queued"
    /\ Cardinality(Running(fut4)) < plan.max_workers
    /\ fut4' = [fut4 EXCEPT ![c] = "running"]
    /\ UNCHANGED <<novelVars, chapters, provider_calls, wf_last, plan, pc, run_error,
                   runs, run_limit, log3, chapter_infos, idx, result, step4_failed, fut5, log4, log5>>

\* _worker_step4(chapter_id, chapter_title), on a session of its own
worker_step4(c, outcome) ==
    /\ fut4[c] = "running"
    /\ run_step4(c, plan.regenerate, outcome)
    /\ fut4' = [fut4 EXCEPT ![c] = "done"]
    /\ UNCHANGED <<plan, pc, run_error, runs, run_limit, log3, chapter_infos, idx, result, step4_failed,
                   fut5, log5>>

\* lines 378-392: as_completed yields a finished future; its task is
\* collected and a failure remembered in step4_failed
collect_step4(c) ==
    /\ pc = "phase1"
    /\ fut4[c] = "done"
    /\ LET task == TaskOf(c, 4, Last(log4[c]))
       IN  /\ result' = collect(result, task)
           /\ step4_failed' = IF task.success THEN step4_failed ELSE step4_failed \cup {c}
    /\ fut4' = [fut4 EXCEPT ![c] = "collected"]
    /\ UNCHANGED <<novelVars, chapters, provider_calls, wf_last, plan, pc, run_error,
                   runs, run_limit, log3, chapter_infos, idx, fut5, log4, log5>>

\* the first executor's with-block left with futures still unfinished
phase1_complete_no_wait(fut) == TRUE

\* lines 373-392: the as_completed loop ends, and the with-block is left,
\* only when every submitted step-4 future has finished and been collected
phase1_complete(fut) == \A c \in DOMAIN fut : fut[c] \in {"none", "collected"}

\* the step-5 loop with no chapter passed over
skip_step5_never(c, failed) == FALSE

\* line 399: if cid in step4_failed
skip_step5(c, failed) == c \in failed

\* the submission loop passing over a failed chapter without a record
submit_step5_no_record(infos, failed, res) == res

\* lines 398-413: the result after the submission loop over chapter_infos, a
\* skip recorded for each chapter passed over
RECURSIVE submit_step5(_, _, _)
submit_step5(infos, failed, res) ==
    IF infos = <<>> THEN res
    ELSE submit_step5(Tail(infos), failed,
                      IF skip_step5(Head(infos), failed)
                         THEN record_skip(res, Head(infos)) ELSE res)

\* _run_batch_parallel, lines 394-413: phase one is over; the second executor
\* is created and the step-5 tasks submitted (the loop runs on the calling
\* thread alone, which collects nothing until it has ended)
run_batch_parallel_phase2 ==
    /\ pc = "phase1"
    /\ phase1_complete(fut4)
    /\ IF plan.from_step <= 5 /\ 5 <= plan.to_step
          THEN /\ result' = submit_step5(chapter_infos, step4_failed, result)
               /\ fut5' = [c \in ChapterSlots |->
                             IF c \in Targets /\ ~skip_step5(c, step4_failed)
                                THEN "queued" ELSE "none"]
               /\ pc' = "phase2"
          ELSE /\ pc' = "returned"
               /\ UNCHANGED <<result, fut5>>
    /\ UNCHANGED <<novelVars, chapters, provider_calls, wf_last, plan, run_error, runs,
                   run_limit, log3, chapter_infos, idx, step4_failed, fut4, log4, log5>>

executor_start_step5(c) ==
    /\ fut5[c] = "queued"
    /\ Cardinality(Running(fut5)) < plan.max_workers
    /\ fut5' = [fut5 EXCEPT ![c] = "running"]
    /\ UNCHANGED <<novelVars, chapters, provider_calls, wf_last, plan, pc, run_error,
                   runs, run_limit, log3, chapter_infos, idx, result, step4_failed, fut4, log4, log5>>

\* _worker_step5(chapter_id, chapter_title), on a session of its own
worker_step5(c) ==
    /\ fut5[c] = "running"
    /\ run_step5(c, plan.regenerate)
    /\ fut5' = [fut5 EXCEPT ![c] = "done"]
    /\ UNCHANGED <<plan, pc, run_error, runs, run_limit, log3, chapter_infos, idx, result, step4_failed,
                   fut4, log4>>

\* lines 415-427: as_completed yields a finished step-5 future
collect_step5(c) ==
    /\ pc = "phase2"
    /\ fut5[c] = "done"
    /\ result' = collect(result, TaskOf(c, 5, Last(log5[c])))
    /\ fut5' = [fut5 EXCEPT ![c] = "collected"]
    /\ UNCHANGED <<novelVars, chapters, provider_calls, wf_last, plan, pc, run_error,
                   runs, run_limit, log3, chapter_infos, idx, step4_failed, fut4, log4, log5>>

\* the second as_completed loop has ended: run() returns result.to_dict()
run_batch_parallel_return ==
    /\ pc = "phase2"
    /\ \A c \in DOMAIN fut5 : fut5[c] \in {"none", "collected"}
    /\ pc' = "returned"
    /\ UNCHANGED <<novelVars, chapters, provider_calls, wf_last, plan, run_error, runs,
                   run_limit, log3, chapter_infos, idx, result, step4_failed, fut4, fut5, log4, log5>>

\* plan.get(...) defaults, lines 162-166
DefaultPlan == [from_step |-> 3, to_step |-> 5, chapter_range |-> <<>>,
                regenerate |-> FALSE, max_workers |-> 1]

PipelineIdle ==
    /\ plan = DefaultPlan
    /\ pc = "idle"
    /\ run_error = "none"
    /\ runs = 0
    /\ run_limit \in 0..MaxRuns
    /\ chapter_infos = <<>>
    /\ idx = 1
    /\ result = EmptyResult
    /\ step4_failed = {}
    /\ fut4 = NoFutures
    /\ fut5 = NoFutures
    /\ log4 = [c \in ChapterSlots |-> <<>>]
    /\ log5 = [c \in ChapterSlots |-> <<>>]
    /\ log3 = <<>>

(***************************************************************************)
(* ChapterRewriter: rewrite and rollback of a chapter body, with the       *)
(* rewrite history kept as one JSON line per rewrite in                    *)
(* data/projects/chapter_<id>_rewrite_history.jsonl.                       *)
(*                                                                         *)
(* Text is a sequence of characters of four kinds: "a" and "b" ordinary    *)
(* characters, "n" the newline U+000A, "L" the line separator U+2028       *)
(* (standing also for U+2029 and U+0085), which str.strip and              *)
(* str.splitlines treat as white space and as a line boundary.             *)
(***************************************************************************)
IsSpace(ch) == ch \in {"n", "L"}

RECURSIVE lstrip(_)
lstrip(text) ==
    IF text # <<>> /\ IsSpace(Head(text)) THEN lstrip(Tail(text)) ELSE text

RECURSIVE rstrip(_)
rstrip(text) ==
    IF text # <<>> /\ IsSpace(text[Len(text)])
       THEN rstrip(SubSeq(text, 1, Len(text) - 1)) ELSE text

\* str.strip()
strip(text) == rstrip(lstrip(text))

RECURSIVE skip_newlines(_)
skip_newlines(text) ==
    IF text # <<>> /\ Head(text) = "n" THEN skip_newlines(Tail(text)) ELSE text

\* re.split(r"\n{2,}", text): piece is the piece being read
RECURSIVE re_split(_, _)
re_split(text, piece) ==
    IF text = <<>> THEN <<piece>>
    ELSE IF Len(text) >= 2 /\ text[1] = "n" /\ text[2] = "n"
       THEN <<piece>> \o re_split(skip_newlines(text), <<>>)
    ELSE re_split(Tail(text), Append(piece, Head(text)))

\* _split_paragraphs(text): [p.strip() for p in re.split(...) if p.strip()]
split_paragraphs(text) ==
    LET pieces == re_split(text, <<>>)
        stripped == [i \in DOMAIN pieces |-> strip(pieces[i])]
        nonempty(p) == p # <<>>
    IN  SelectSeq(stripped, nonempty)

\* "\n\n".join(paragraphs)
RECURSIVE join_paragraphs(_)
join_paragraphs(paragraphs) ==
    IF paragraphs = <<>> THEN <<>>
    ELSE IF Len(paragraphs) = 1 THEN paragraphs[1]
    ELSE paragraphs[1] \o <<"n", "n">> \o join_paragraphs(Tail(paragraphs))

\* json.dumps(record, ensure_ascii=False) of a string: the newline is written
\* as the two characters \n; U+2028 is above U+001F and is not ASCII-escaped,
\* so it is written as it is
json_escape(text) == [i \in DOMAIN text |-> IF text[i] = "n" THEN "\\n" ELSE text[i]]

json_unescape(text) == [i \in DOMAIN text |-> IF text[i] = "\\n" THEN "n" ELSE text[i]]

\* the history record of _append_rewrite_history as a JSON object on one line
json_dumps(record) ==
    <<"{", record.history_id, ",">> \o json_escape(record.original_content)
        \o <<",">> \o json_escape(record.new_content) \o <<"}">>

\* str.splitlines(): line is the line being read; a line boundary ends it
RECURSIVE splitlines(_, _)
splitlines(text, line) ==
    IF text = <<>> THEN (IF line = <<>> THEN <<>> ELSE <<line>>)
    ELSE IF IsSpace(Head(text)) THEN <<line>> \o splitlines(Tail(text), <<>>)
    ELSE splitlines(Tail(text), Append(line, Head(text)))

\* json.loads(line) raises JSONDecodeError unless the line is a whole object
json_valid(line) ==
    /\ Len(line) >= 5
    /\ line[1] = "{"
    /\ line[Len(line)] = "}"

\* json.loads(line) of a whole object
json_loads(line) ==
    LET comma == CHOOSE j \in 4..Len(line) : line[j] = "," /\ \A k \in 4..(j - 1) : line[k] # ","
    IN  [history_id |-> line[2],
         original_content |-> json_unescape(SubSeq(line, 4, comma - 1)),
         new_content |-> json_unescape(SubSeq(line, comma + 1, Len(line) - 1))]

\* _read_rewrite_history(chapter_id): the records of the lines that parse,
\* blank lines and lines json.loads rejects passed over
read_rewrite_history(file_text) ==
    LET lines == splitlines(file_text, <<>>)
        stripped == [i \in DOMAIN lines |-> strip(lines[i])]
        good(line) == line # <<>> /\ json_valid(line)
        kept == SelectSeq(stripped, good)
    IN  [i \in DOMAIN kept |-> json_loads(kept[i])]

\* _append_rewrite_history: f.write(json.dumps(record) + "\n") in append mode
append_rewrite_history(file_text, record) == file_text \o json_dumps(record) \o <<"n">>

\* the last rewriter call: what was asked and how it ended
RwResult(op, raised, scope, save, history_id) ==
    [op |-> op, raised |-> raised, scope |-> scope, save |-> save,
     history_id |-> history_id, body_before |-> body]

NoRwCall == [op |-> "none", raised |-> FALSE, scope |-> "none", save |-> FALSE,
             history_id |-> NULL, body_before |-> <<>>]

\* the call before, when it was a rewrite that returned
JustRewritten == IF rw_last.op = "rewrite" /\ ~rw_last.raised THEN rw_last ELSE NoRwCall

\* chapter.summary is None
NoSummary == [present |-> FALSE, of |-> <<>>]

\* the call raises: nothing is written
RwRaise(op, scope, save, history_id) ==
    /\ rw_last' = RwResult(op, TRUE, scope, save, history_id)
    /\ UNCHANGED <<body, history_file, rewrites, chapter_summary>>

\* paragraphs[start - 1 : end] = rewritten_paragraphs
splice(paragraphs, start, end, rewritten_paragraphs) ==
    SubSeq(paragraphs, 1, start - 1) \o rewritten_paragraphs
        \o SubSeq(paragraphs, end + 1, Len(paragraphs))

\* ChapterRewriter.rewrite(chapter_id, instruction, target_scope, range_start,
\* range_end, ..., save); range 0 stands for None; reply is the model's
\* response["content"], unless llm_client.generate raised
rewrite(target_scope, range_start, range_end, save, reply) ==
    /\ rewrites < MaxRewrites
    /\ rw_prev' = JustRewritten
    /\ LET original_content == body
           paragraphs == split_paragraphs(original_content)
           start == IF range_start # 0 THEN range_start ELSE 1
           end == IF range_end # 0 THEN range_end ELSE start
           text == IF reply.raised THEN <<>> ELSE strip(reply.content)
           new_content ==
               IF target_scope = "chapter" THEN text
               ELSE join_paragraphs(splice(paragraphs, start, end, split_paragraphs(text)))
           history_id == ToString(rewrites + 1)
       IN  IF original_content = <<>>
              THEN RwRaise("rewrite", target_scope, save, NULL)
           ELSE IF target_scope = "paragraph" /\ paragraphs = <<>>
              THEN RwRaise("rewrite", target_scope, save, NULL)
           ELSE IF target_scope = "paragraph"
                   /\ (start < 1 \/ end < start \/ end > Len(paragraphs))
              THEN RwRaise("rewrite", target_scope, save, NULL)
           ELSE IF reply.raised \/ text = <<>>
              THEN RwRaise("rewrite", target_scope, save, NULL)
           ELSE /\ history_file' = append_rewrite_history(history_file,
                                      [history_id |-> history_id,
                                       original_content |-> original_content,
                                       new_content |-> new_content])
                /\ rewrites' = rewrites + 1
                /\ body' = IF save THEN new_content ELSE body
                /\ rw_last' = RwResult("rewrite", FALSE, target_scope, save, history_id)
                /\ UNCHANGED chapter_summary

\* ChapterRewriter.rollback(chapter_id, history_id, save); NULL stands for None
rollback(history_id, save) ==
    /\ rw_prev' = JustRewritten
    /\ LET history_records == read_rewrite_history(history_file)
           matching == {i \in DOMAIN history_records :
                           history_records[i].history_id = history_id}
       IN  IF history_records = <<>>
              THEN RwRaise("rollback", "none", save, history_id)
           ELSE IF history_id # NULL /\ matching = {}
              THEN RwRaise("rollback", "none", save, history_id)
           ELSE LET target == IF history_id # NULL
                                 THEN history_records[CHOOSE i \in matching :
                                                         \A j \in matching : i <= j]
                                 ELSE history_records[Len(history_records)]
                    rollback_content == target.original_content
                IN  IF rollback_content = <<>>
                       THEN RwRaise("rollback", "none", save, history_id)
                    ELSE /\ body' = IF save THEN rollback_content ELSE body
                         /\ rw_last' = RwResult("rollback", FALSE, "none", save, history_id)
                         /\ UNCHANGED <<history_file, rewrites, chapter_summary>>

\* ContextCompressor.compress_and_cache(chapter_id) on the rewriter's chapter:
\* a cached summary is returned as it is; otherwise the summary of the
\* content is written to chapter.summary (an empty text counts as none)
compress_and_cache ==
    /\ chapter_summary' = IF chapter_summary.present THEN chapter_summary
                          ELSE [present |-> body # <<>>, of |-> body]
    /\ UNCHANGED <<body, history_file, rewrites, rw_last, rw_prev>>

RewriterIdle ==
    /\ body = <<"a">>
    /\ history_file = <<>>
    /\ rewrites = 0
    /\ rw_last = NoRwCall
    /\ rw_prev = NoRwCall
    /\ chapter_summary = NoSummary

(***************************************************************************)
(* The provider clients' generate: OpenAIClient, ClaudeClient, QwenClient, *)
(* each wrapped in tenacity's retry.                                       *)
(***************************************************************************)
\* stop=stop_after_attempt(3)
MaxAttempts == 3

Clients == {"openai", "claude", "qwen"}

\* what the provider SDK does on an attempt: a response, or an exception of
\* one of four causes whose text str(e) may hold the digits 429 or 401
\* besides the words of its cause (a status code, a token count, an id)
ProviderErrorKinds == {"rate_limit", "auth", "token_limit", "other"}

ProviderReplies ==
    {[ok |-> TRUE, kind |-> "none", has429 |-> FALSE, has401 |-> FALSE]}
    \cup [ok : {FALSE}, kind : ProviderErrorKinds, has429 : BOOLEAN, has401 : BOOLEAN]

\* the except clause of generate: the exception class raised for str(e),
\* the tests made in this order
classify(client, e) ==
    LET digits == client \in {"openai", "claude"}
    IN  IF e.kind = "rate_limit" \/ (digits /\ e.has429) THEN "RateLimitError"
        ELSE IF e.kind = "auth" \/ (digits /\ e.has401) THEN "APIKeyError"
        ELSE IF e.kind = "token_limit" THEN "TokenLimitError"
        ELSE "LLMError"

\* retry=retry_if_exception_type(RateLimitError)
retry_if_exception_type(error) == error = "RateLimitError"

GenIdle == [client |-> "openai", pc |-> "idle", attempts |-> <<>>, error |-> "none"]

\* client.generate(messages, ...) is called
generate_call(client) ==
    /\ gen.pc \in {"idle", "returned", "raised"}
    /\ gen' = [client |-> client, pc |-> "attempting", attempts |-> <<>>, error |-> "none"]

\* one attempt: the body of generate runs once; a response is returned, an
\* exception is classified and either retried or, with reraise=True, raised
generate_attempt(reply) ==
    /\ gen.pc = "attempting"
    /\ LET error == IF reply.ok THEN "none" ELSE classify(gen.client, reply)
           attempts == Append(gen.attempts, [kind |-> reply.kind, error |-> error])
       IN  gen' = [gen EXCEPT !.attempts = attempts,
                              !.error = error,
                              !.pc = IF reply.ok THEN "returned"
                                     ELSE IF retry_if_exception_type(error)
                                             /\ Len(attempts) < MaxAttempts
                                        THEN "waiting"
                                     ELSE "raised"]

\* wait=wait_exponential(multiplier=1, min=2, max=10): the sleep ends
generate_backoff ==
    /\ gen.pc = "waiting"
    /\ gen' = [gen EXCEPT !.pc = "attempting"]

\* the parts of the state a specification of another component leaves alone
(***************************************************************************)
(* WorldBuildingGenerator.save_world_building under the caller's           *)
(* session_scope: the rows of the characters and world_data tables as the  *)
(* database holds them (committed) and as the open session sees them.      *)
(***************************************************************************)
ThisNovel == 1
OtherNovel == ThisNovel + 1

\* a Character or WorldData row; batch tells the rows of one save from the
\* rows of another that carry the same names
WbRow(novel_id, kind, name, batch) ==
    [novel_id |-> novel_id, kind |-> kind, name |-> name, batch |-> batch]

\* .where(Character.novel_id == novel_id)
ProjectRows(rows) == {r \in rows : r.novel_id = ThisNovel}

\* lines 110-111: session.execute(delete(...).where(novel_id == novel_id)) on
\* both tables
delete_rows(rows, novel_id) == {r \in rows : r.novel_id # novel_id}

\* the rows the parsed reply describes: data.world_data and data.characters
ParsedRows(data, batch) ==
    {WbRow(ThisNovel, "world", i, batch) : i \in 1..data.world_data}
        \cup {WbRow(ThisNovel, "character", i, batch) : i \in 1..data.characters}

\* lines 118-166: the two loops create a row per entry, world data first,
\* and stop at the entry that raises (data.bad, counted over both lists; 0
\* when every entry is well formed): wd["data_type"], WorldDataType[...],
\* char["mbti"], MBTIType[...] or a missing key raise KeyError
CreatedRows(data, batch) ==
    IF data.bad = 0 THEN ParsedRows(data, batch)
    ELSE {WbRow(ThisNovel, "world", i, batch) :
             i \in {j \in 1..data.world_data : j < data.bad}}
         \cup {WbRow(ThisNovel, "character", i, batch) :
                  i \in {j \in 1..data.characters : data.world_data + j < data.bad}}

\* save_world_building(session, novel_id, world_building_data): the session's
\* rows afterwards and whether the call raised
save_world_building(rows, data, batch) ==
    [rows |-> delete_rows(rows, ThisNovel) \cup CreatedRows(data, batch),
     raised |-> data.bad # 0]

\* the except branch of session_scope that leaves the session as it is
session_rollback_keeps(db, sess) == sess

\* Database.session_scope, lines 153-154: session.rollback() discards what
\* the session flushed since the last commit
session_rollback(db, sess) == db

NoWbCall == [op |-> "none", before |-> {}, parsed |-> {}, flushed |-> {},
             raised |-> FALSE, parse_failed |-> FALSE]

WorldIdle ==
    /\ db_rows = {}
    /\ sess_rows = {}
    /\ txn = "none"
    /\ builds = 0
    /\ wb_last = NoWbCall

\* step_2_world_building inside the caller's "with db.session_scope() as
\* session" (cli/main.py step2, web _run_full_workflow): generate_and_save,
\* the cursor, session.commit(). An exception leaves the with-block with the
\* transaction open
build_world(reply) ==
    /\ txn = "none"
    /\ builds < MaxBuilds
    /\ builds' = builds + 1
    /\ LET saved == save_world_building(sess_rows, reply, builds + 1)
           outcome == IF reply.kind = "error" THEN "raise"
                      ELSE IF reply.kind = "unparsable" THEN "unparsable"
                      ELSE IF saved.raised THEN "raise" ELSE "ok"
       IN  /\ step_2_world_building(outcome, reply.characters)
           /\ IF planning_content = NULL \/ reply.kind = "error"
                 THEN /\ txn' = "failed"
                      /\ UNCHANGED <<db_rows, sess_rows>>
                      /\ wb_last' = [op |-> "build_world", before |-> ProjectRows(db_rows),
                                     parsed |-> {}, flushed |-> ProjectRows(sess_rows),
                                     raised |-> TRUE, parse_failed |-> FALSE]
              ELSE IF reply.kind = "unparsable"
                 THEN /\ txn' = "none"
                      /\ db_rows' = sess_rows
                      /\ UNCHANGED sess_rows
                      /\ wb_last' = [op |-> "build_world", before |-> ProjectRows(db_rows),
                                     parsed |-> {}, flushed |-> ProjectRows(sess_rows),
                                     raised |-> FALSE, parse_failed |-> TRUE]
              ELSE /\ sess_rows' = saved.rows
                   /\ db_rows' = IF saved.raised THEN db_rows ELSE saved.rows
                   /\ txn' = IF saved.raised THEN "failed" ELSE "none"
                   /\ wb_last' = [op |-> "build_world", before |-> ProjectRows(db_rows),
                                  parsed |-> ParsedRows(reply, builds + 1),
                                  flushed |-> ProjectRows(saved.rows),
                                  raised |-> saved.raised, parse_failed |-> FALSE]

\* Database.session_scope, lines 153-158: the exception reaches the
\* with-block's end; rollback, re-raise, close
session_scope_exit ==
    /\ txn = "failed"
    /\ txn' = "none"
    /\ db_rows' = session_rollback(db_rows, sess_rows)
    /\ sess_rows' = session_rollback(db_rows, sess_rows)
    /\ UNCHANGED <<builds, wb_last, novelVars, chapters, provider_calls, wf_last>>

(***************************************************************************)
(* OutlineGenerator: a reply is a sequence of tokens. "{" "}" "[" "]" ","  *)
(* are themselves; "K" is the key "volumes":, a volume's title stands for  *)
(* its "title", "order" and "chapters": keys, a chapter's title for its    *)
(* "title" and "order"; "F" is a code fence, "N" a JSON value that is no   *)
(* container (null, 42), "x" prose and "n" white space.                    *)
(***************************************************************************)
RECURSIVE join(_, _)
join(parts, sep) ==
    IF parts = <<>> THEN <<>>
    ELSE IF Len(parts) = 1 THEN parts[1]
    ELSE parts[1] \o sep \o join(Tail(parts), sep)

\* the outline the prompt asks for: volumes V1.. with chapters C1..
Outline(counts) ==
    [i \in DOMAIN counts |->
        [title |-> "V" \o ToString(i),
         chapters |-> [j \in 1..counts[i] |-> "C" \o ToString(j)]]]

dump_chapter(c) == <<"{", c, "}">>

dump_volume(v) ==
    <<"{", v.title, "[">>
        \o join([j \in DOMAIN v.chapters |-> dump_chapter(v.chapters[j])], <<",">>)
        \o <<"]", "}">>

\* the JSON text of an outline
dump_outline(o) ==
    <<"{", "K", "[">> \o join([i \in DOMAIN o |-> dump_volume(o[i])], <<",">>) \o <<"]", "}">>

KnownOutlines ==
    {Outline(counts) : counts \in UNION {[1..k -> 0..MaxChapters] : k \in 0..MaxVolumes}}

\* json.loads(json_str): the outline whose text this is; a value that is no
\* container; JSONDecodeError otherwise
outline_json_loads(json_str) ==
    IF json_str = <<"N">> THEN [kind |-> "scalar", volumes |-> <<>>]
    ELSE IF \E o \in KnownOutlines : dump_outline(o) = json_str
       THEN [kind |-> "outline",
             volumes |-> CHOOSE o \in KnownOutlines : dump_outline(o) = json_str]
    ELSE [kind |-> "error", volumes |-> <<>>]

\* str.count
count(text, tok) == Cardinality({i \in DOMAIN text : text[i] = tok})

\* str.find / str.rfind, 0 for "not found"
find(text, tok) ==
    IF \E i \in DOMAIN text : text[i] = tok
       THEN CHOOSE i \in DOMAIN text : text[i] = tok /\ \A j \in 1..(i - 1) : text[j] # tok
       ELSE 0

rfind(text, tok) ==
    IF \E i \in DOMAIN text : text[i] = tok
       THEN CHOOSE i \in DOMAIN text : text[i] = tok /\ \A j \in (i + 1)..Len(text) : text[j] # tok
       ELSE 0

\* _extract_json_candidate, lines 316-336
extract_json_candidate(content) ==
    LET text == strip(content)
        open == find(text, "F")
        rest == SubSeq(text, open + 1, Len(text))
        close == find(rest, "F")
        group == IF close = 0 THEN rest ELSE SubSeq(rest, 1, close - 1)
        start == find(text, "{")
        end == rfind(text, "}")
    IN  IF text = <<>> THEN <<>>
        ELSE IF open # 0 /\ strip(group) # <<>> THEN strip(group)
        ELSE IF start # 0 /\ end # 0 /\ end > start THEN strip(SubSeq(text, start, end))
        ELSE IF start # 0 THEN strip(SubSeq(text, start, Len(text)))
        ELSE text

\* _parse_outline, lines 278-314: (outline_data, parse_failed), or TypeError
\* out of '"volumes" not in data' when data is no container
parse_outline(content) ==
    LET json_str == extract_json_candidate(content)
        data == outline_json_loads(json_str)
        failed == [volumes |-> <<>>, parse_failed |-> TRUE, raised |-> FALSE]
    IN  IF json_str = <<>> THEN failed
        ELSE IF count(json_str, "{") > count(json_str, "}") THEN failed
        ELSE IF data.kind = "error" THEN failed
        ELSE IF data.kind = "scalar"
           THEN [volumes |-> <<>>, parse_failed |-> FALSE, raised |-> TRUE]
        ELSE [volumes |-> data.volumes, parse_failed |-> FALSE, raised |-> FALSE]

\* line 91: max_attempts = 2
max_attempts == 2

\* the second request sent without the first reply
continuation_messages_without_reply(content) ==
    <<[role |-> "user", content |-> <<"prompt">>],
      [role |-> "user", content |-> <<"continue">>]>>

\* lines 146-157: the continuation request: the prompt, the reply as the
\* assistant's turn, the instruction to go on
continuation_messages(content) ==
    <<[role |-> "user", content |-> <<"prompt">>],
      [role |-> "assistant", content |-> content],
      [role |-> "user", content |-> <<"continue">>]>>

\* the raw text kept without the first half
merged_content_last_only(accumulated, content) == content

\* line 124: merged_content
merged_content(accumulated, content) ==
    IF accumulated # <<>> THEN accumulated \o content ELSE content

\* this reply alone, never the merged text
parse_attempt_alone(accumulated, content) == parse_outline(content)

\* lines 128-130: this reply alone first, then the merged text
parse_attempt(accumulated, content) ==
    LET alone == parse_outline(content)
    IN  IF alone.raised THEN alone
        ELSE IF alone.parse_failed /\ accumulated # <<>>
           THEN parse_outline(merged_content(accumulated, content))
        ELSE alone

\* save_outline, lines 201-223: the Volume rows appended, each with its
\* Chapter rows
save_volumes(rows, volumes) == rows \o volumes

\* the number of chapters of an outline
RECURSIVE chapters_created(_)
chapters_created(volumes) ==
    IF volumes = <<>> THEN 0
    ELSE Len(Head(volumes).chapters) + chapters_created(Tail(volumes))

OgIdle == [pc |-> "idle", attempt |-> 0, messages |-> <<>>, accumulated |-> <<>>,
           sent |-> <<>>, replies |-> <<>>, parse_failed |-> FALSE, raw_content |-> <<>>,
           volumes |-> <<>>]

OutlineIdle ==
    /\ og = OgIdle
    /\ volume_rows = <<>>
    /\ outline_raw_text = <<>>

\* step_3_outline up to generate_outline's loop, lines 60-96
generate_outline_call ==
    /\ og.pc = "idle"
    /\ IF num_characters = 0
          THEN /\ og' = [og EXCEPT !.pc = "raised"]
               /\ wf_last' = WfResult("step_3_outline", 3, TRUE, FALSE)
          ELSE /\ og' = [og EXCEPT !.pc = "generating", !.attempt = 1,
                                   !.messages = <<[role |-> "user", content |-> <<"prompt">>]>>]
               /\ UNCHANGED wf_last
    /\ UNCHANGED <<novelVars, chapters, provider_calls, volume_rows, outline_raw_text>>

\* one pass of the loop, lines 99-171, and when it returns the rest of
\* generate_and_save (lines 252-276) and of step_3_outline (lines 273-276)
generate_outline_attempt(reply) ==
    /\ og.pc = "generating"
    /\ provider_calls' = provider_calls + 1
    /\ LET content == reply.content
           raw == merged_content(og.accumulated, content)
           parsed == parse_attempt(og.accumulated, content)
           heard == [og EXCEPT !.sent = Append(@, og.messages),
                               !.replies = Append(@, reply)]
           raises == /\ wf_last' = WfResult("step_3_outline", 3, TRUE, FALSE)
                     /\ og' = [heard EXCEPT !.pc = "raised"]
                     /\ UNCHANGED <<novelVars, chapters, volume_rows, outline_raw_text>>
       IN  IF reply.raised \/ parsed.raised THEN raises
           ELSE IF ~parsed.parse_failed
              THEN IF parsed.volumes = <<>> THEN raises
                   ELSE /\ og' = [heard EXCEPT !.pc = "returned", !.raw_content = raw,
                                               !.volumes = parsed.volumes]
                        /\ volume_rows' = save_volumes(volume_rows, parsed.volumes)
                        /\ chapters' = save_outline(chapters, chapters_created(parsed.volumes))
                        /\ num_volumes' = num_volumes + Len(parsed.volumes)
                        /\ SetCursor(step_3_cursor(Cursor, FALSE))
                        /\ wf_last' = WfResult("step_3_outline", 3, FALSE, FALSE)
                        /\ UNCHANGED <<description, planning_content, world_building_raw,
                                       outline_raw, num_characters, outline_raw_text>>
           ELSE IF reply.finish_reason = "length" /\ og.attempt < max_attempts
              THEN /\ og' = [heard EXCEPT !.attempt = @ + 1, !.accumulated = raw,
                                          !.messages = continuation_messages(content)]
                   /\ UNCHANGED <<novelVars, chapters, wf_last, volume_rows, outline_raw_text>>
           ELSE /\ og' = [heard EXCEPT !.pc = "returned", !.parse_failed = TRUE,
                                       !.raw_content = raw]
                /\ outline_raw' = "raw"
                /\ outline_raw_text' = raw
                /\ SetCursor(step_3_cursor(Cursor, TRUE))
                /\ wf_last' = WfResult("step_3_outline", 3, FALSE, TRUE)
                /\ UNCHANGED <<description, planning_content, world_building_raw,
                               num_characters, num_volumes, chapters, volume_rows>>

(***************************************************************************)
(* parse_chapter_range on the text of a chapter_range: a sequence of the   *)
(* characters "0", "1", "2" (digits), "," "-" " " and "x" (any character   *)
(* that is none of these).                                                 *)
(***************************************************************************)
IsDigit(ch) == ch \in {"0", "1", "2"}

DigitValue(ch) == IF ch = "0" THEN 0 ELSE IF ch = "1" THEN 1 ELSE 2

\* int(digits)
RECURSIVE int(_)
int(digits) ==
    IF digits = <<>> THEN 0
    ELSE 10 * int(SubSeq(digits, 1, Len(digits) - 1)) + DigitValue(digits[Len(digits)])

\* re.fullmatch(r"\d+", part)
fullmatch_digits(part) == part # <<>> /\ \A i \in DOMAIN part : IsDigit(part[i])

\* part.strip()
RECURSIVE strip_blanks(_)
strip_blanks(part) ==
    IF part # <<>> /\ Head(part) = " " THEN strip_blanks(Tail(part))
    ELSE IF part # <<>> /\ part[Len(part)] = " "
       THEN strip_blanks(SubSeq(part, 1, Len(part) - 1))
    ELSE part

\* chapter_range.split(",")
RECURSIVE split(_)
split(text) ==
    IF find(text, ",") = 0 THEN <<text>>
    ELSE <<SubSeq(text, 1, find(text, ",") - 1)>>
            \o split(SubSeq(text, find(text, ",") + 1, Len(text)))

\* lines 98-109, one part after strip(): "N-M", "N", or a ValueError
parse_part(part) ==
    LET dash == find(part, "-")
        left == SubSeq(part, 1, dash - 1)
        right == SubSeq(part, dash + 1, Len(part))
    IN  IF dash # 0
           THEN IF fullmatch_digits(left) /\ fullmatch_digits(right)
                   THEN Range(int(left), int(right))
                   ELSE BadPart
        ELSE IF fullmatch_digits(part) THEN Single(int(part))
        ELSE BadPart

\* the parts of a chapter_range text: <<>> for "" (if not chapter_range)
chapter_range_parts(text) ==
    IF text = <<>> THEN <<>>
    ELSE [i \in DOMAIN split(text) |-> parse_part(strip_blanks(split(text)[i]))]

NoRangeCall == [called |-> FALSE, error |-> FALSE, indices |-> <<>>]

RangeIdle ==
    /\ range_text = <<>>
    /\ range_total = 0
    /\ range_last = NoRangeCall

\* a caller parses the range it holds
call_parse_chapter_range ==
    /\ ~range_last.called
    /\ range_last' = [called |-> TRUE,
                      error |-> parse_chapter_range(chapter_range_parts(range_text),
                                                    range_total).error,
                      indices |-> parse_chapter_range(chapter_range_parts(range_text),
                                                      range_total).indices]
    /\ UNCHANGED <<range_text, range_total>>

(***************************************************************************)
(* PlotArcTracker: the plot_arcs rows of a project, each with its status.  *)
(***************************************************************************)
PlotArcStatus == {"planted", "developing", "resolved", "abandoned"}

NoArcCall == [op |-> "none", arc_id |-> 0, found |-> FALSE,
              before |-> "none", after |-> "none", given |-> 0, resolved_before |-> 0]

ArcIdle ==
    /\ plot_arcs = <<>>
    /\ arc_last = NoArcCall

\* plant(novel_id, name, description, planted_chapter, ...): a new row with
\* status PLANTED; a chapter number 0 stands for None
plant(planted_chapter) ==
    /\ Len(plot_arcs) < MaxArcs
    /\ plot_arcs' = Append(plot_arcs, [status |-> "planted",
                                       planted_chapter |-> planted_chapter,
                                       resolved_chapter |-> 0])
    /\ arc_last' = [op |-> "plant", arc_id |-> Len(plot_arcs) + 1, found |-> TRUE,
                    before |-> "none", after |-> "planted", given |-> 0,
                    resolved_before |-> 0]

\* an update that writes the status and drops every other keyword
plot_arc_crud_update_status_only(rows, arc_id, kwargs) ==
    IF arc_id \in DOMAIN rows THEN [rows EXCEPT ![arc_id].status = kwargs.status] ELSE rows

\* plot_arc_crud.update(session, arc_id, **kwargs): None when the row does
\* not exist, else setattr for each keyword and flush
plot_arc_crud_update(rows, arc_id, kwargs) ==
    IF arc_id \in DOMAIN rows THEN [rows EXCEPT ![arc_id] = kwargs @@ @] ELSE rows

\* what a status-changing call leaves behind
ArcCall(op, arc_id, kwargs) ==
    /\ plot_arcs' = plot_arc_crud_update(plot_arcs, arc_id, kwargs)
    /\ arc_last' = [op |-> op, arc_id |-> arc_id, found |-> arc_id \in DOMAIN plot_arcs,
                    before |-> IF arc_id \in DOMAIN plot_arcs
                                  THEN plot_arcs[arc_id].status ELSE "none",
                    after |-> IF arc_id \in DOMAIN plot_arcs
                                 THEN plot_arcs'[arc_id].status ELSE "none",
                    given |-> IF "resolved_chapter" \in DOMAIN kwargs
                                 THEN kwargs.resolved_chapter ELSE 0,
                    resolved_before |-> IF arc_id \in DOMAIN plot_arcs
                                           THEN plot_arcs[arc_id].resolved_chapter ELSE 0]

\* develop(arc_id, notes)
develop(arc_id) == ArcCall("develop", arc_id, [status |-> "developing"])

\* resolve(arc_id, resolved_chapter)
resolve(arc_id, resolved_chapter) ==
    ArcCall("resolve", arc_id,
            IF resolved_chapter # 0
               THEN [status |-> "resolved", resolved_chapter |-> resolved_chapter]
               ELSE [status |-> "resolved"])

\* abandon(arc_id)
abandon(arc_id) == ArcCall("abandon", arc_id, [status |-> "abandoned"])

(***************************************************************************)
(* StyleProfile rows: style_profile_crud, StyleAnalyzer.analyze_and_save   *)
(* and WorkflowOrchestrator.activate_style_profile.                        *)
(***************************************************************************)
StyleProfileRow(novel_id, is_active) == [novel_id |-> novel_id, is_active |-> is_active]

NoStyleCall == [op |-> "none", raised |-> FALSE, returned_none |-> FALSE]

StyleIdle ==
    /\ profiles = <<>>
    /\ style_last = NoStyleCall

\* get_by_novel_id's default limit
get_by_novel_id_limit == 100

\* style_profile_crud.get_by_novel_id(session, novel_id): the ids of the
\* novel's rows, the first `limit` of them
get_by_novel_id(rows, novel_id) ==
    LET ids == {i \in DOMAIN rows : rows[i].novel_id = novel_id}
    IN  {i \in ids : Cardinality({j \in ids : j < i}) < get_by_novel_id_limit}

\* for p in ...: p.is_active = False
deactivate(rows, ids) ==
    [i \in DOMAIN rows |-> IF i \in ids THEN [rows[i] EXCEPT !.is_active = FALSE]
                           ELSE rows[i]]

\* style_profile_crud.create(session, novel_id=..., is_active=...): the row
\* is added as given (is_active defaults to True, style_profile.py:28-30)
style_profile_crud_create(novel_id, is_active) ==
    /\ Len(profiles) < MaxProfiles
    /\ profiles' = Append(profiles, StyleProfileRow(novel_id, is_active))
    /\ style_last' = [op |-> "create", raised |-> FALSE, returned_none |-> FALSE]

\* analyze_and_save(session, novel_id, name, source_text, set_active):
\* analyze() may raise; else the novel's profiles are deactivated when
\* set_active, the new profile is created and the session committed
analyze_and_save(novel_id, set_active, analyze_raises) ==
    /\ Len(profiles) < MaxProfiles
    /\ profiles' =
          IF analyze_raises THEN profiles
          ELSE Append(IF set_active
                         THEN deactivate(profiles, get_by_novel_id(profiles, novel_id))
                         ELSE profiles,
                      StyleProfileRow(novel_id, set_active))
    /\ style_last' = [op |-> "analyze_and_save", raised |-> analyze_raises,
                      returned_none |-> FALSE]

\* style_profile_crud.set_active(session, novel_id, profile_id): the novel's
\* profiles are deactivated; the target is activated if it exists and
\* belongs to the novel, else None is returned
set_active_rows(rows, novel_id, profile_id) ==
    LET off == deactivate(rows, get_by_novel_id(rows, novel_id))
    IN  IF profile_id \in DOMAIN rows /\ rows[profile_id].novel_id = novel_id
           THEN [off EXCEPT ![profile_id].is_active = TRUE]
           ELSE off

set_active(novel_id, profile_id) ==
    /\ profiles' = set_active_rows(profiles, novel_id, profile_id)
    /\ style_last' = [op |-> "set_active", raised |-> FALSE,
                      returned_none |-> ~(profile_id \in DOMAIN profiles
                                           /\ profiles[profile_id].novel_id = novel_id)]

\* activate_style_profile(session, novel_id, profile_id): set_active, a
\* ValueError when it returned None, else commit. The ValueError is raised
\* before any commit: whether the deactivations stay depends on what the
\* caller's session does next (rolled_back)
activate_style_profile(novel_id, profile_id, rolled_back) ==
    LET found == profile_id \in DOMAIN profiles /\ profiles[profile_id].novel_id = novel_id
    IN  /\ found => ~rolled_back
        /\ profiles' = IF rolled_back THEN profiles
                       ELSE set_active_rows(profiles, novel_id, profile_id)
        /\ style_last' = [op |-> "activate_style_profile", raised |-> ~found,
                          returned_none |-> FALSE]

(***************************************************************************)
(* ContextCompressor.build_previous_context (core/context_compressor.py).  *)
(* A text is modelled by its length in characters: every step of the code  *)
(* that shapes the recap (len, slicing, appending the ellipsis) depends on *)
(* lengths only. A stored chapter is the length of its content and of its  *)
(* cached summary, 0 for an empty content and for no summary.              *)
(***************************************************************************)
NEAR_THRESHOLD == 3
MID_THRESHOLD == 10

get_compression_level(distance) ==
    IF distance <= NEAR_THRESHOLD THEN "detailed"
    ELSE IF distance <= MID_THRESHOLD THEN "brief"
    ELSE "minimal"

\* _LEVEL_CONFIG[level]["target_words"]
target_words(level) ==
    CASE level = "detailed" -> 200
      [] level = "brief" -> 100
      [] level = "minimal" -> 50

\* _compress_single: a short content is returned as it is; otherwise the
\* model's reply, stripped, or content[:target_words] + "…" when the call raised
compress_single(content, level, llm) ==
    IF content <= target_words(level) THEN content
    ELSE IF llm.raised THEN target_words(level) + 1
    ELSE llm.length[level]

\* _get_or_compress: the cached summary, cut to target + "…" when it is longer
\* than target * 1.5
get_or_compress(chapter, level, llm) ==
    IF chapter.summary # 0
       THEN IF 2 * chapter.summary <= 3 * target_words(level)
               THEN chapter.summary
               ELSE target_words(level) + 1
       ELSE compress_single(chapter.content, level, llm)

\* if len(text) > remaining: text = text[:remaining] + "…"
cut_to_remaining(text, remaining) ==
    IF text > remaining THEN remaining + 1 ELSE text

\* int(token_budget * 1.5)
char_budget(token_budget) == (3 * token_budget) \div 2

\* the loop of _compress_chapters from position i on: result_map when it ends
RECURSIVE compress_loop(_, _, _, _, _)
compress_loop(chapters_with_distance, i, remaining, result_map, llm) ==
    IF i > Len(chapters_with_distance) \/ remaining <= 0 THEN result_map
    ELSE LET chapter == chapters_with_distance[i][1]
             distance == chapters_with_distance[i][2]
             level == get_compression_level(distance)
             downgraded == remaining < target_words(level)
         IN  IF downgraded /\ remaining < target_words("minimal") THEN result_map
             ELSE LET text == cut_to_remaining(
                                  get_or_compress(chapter,
                                      IF downgraded THEN "minimal" ELSE level, llm),
                                  remaining)
                  IN  compress_loop(chapters_with_distance, i + 1, remaining - text,
                                    result_map @@ (chapter.order :> text), llm)

\* _compress_chapters: chapter order -> its text in the recap
compress_chapters(chapters_with_distance, token_budget, llm) ==
    compress_loop(chapters_with_distance, 1, char_budget(token_budget), <<>>, llm)

\* the rows picked up by the loop over range(start_order, current_order), in
\* that order; a row without content is passed over
RECURSIVE gather(_, _, _)
gather(rows, order, current_order) ==
    IF order >= current_order THEN <<>>
    ELSE (IF order \in DOMAIN rows /\ rows[order].content # 0
             THEN <<[order |-> order, content |-> rows[order].content,
                     summary |-> rows[order].summary]>>
             ELSE <<>>) \o gather(rows, order + 1, current_order)

\* chapters_with_distance = [(ch, current_order - ch.order) for ch in chapters]
with_distance(gathered, current_order) ==
    [i \in DOMAIN gathered |-> <<gathered[i], current_order - gathered[i].order>>]

NoRecapCall ==
    [op |-> "none", current_order |-> 0, window_size |-> 0, token_budget |-> 0,
     opening |-> FALSE, gathered |-> {}, texts |-> <<>>]

RecapIdle ==
    /\ stored = <<>>
    /\ recap_last = NoRecapCall

\* build_previous_context(volume_id, current_order, window_size, token_budget)
\* on the volume whose rows are stored; llm is what the provider does when
\* asked for a summary. A caller builds the recap of its chapter once.
build_previous_context(current_order, window_size, token_budget, llm) ==
    LET start_order == IF current_order - window_size >= 1
                          THEN current_order - window_size ELSE 1
        gathered == IF current_order <= 1 THEN <<>>
                    ELSE gather(stored, start_order, current_order)
    IN  /\ recap_last.op = "none"
        /\ recap_last' =
              [op |-> "build_previous_context", current_order |-> current_order,
               window_size |-> window_size, token_budget |-> token_budget,
               opening |-> gathered = <<>>,
               gathered |-> {gathered[i].order : i \in DOMAIN gathered},
               texts |-> compress_chapters(with_distance(gathered, current_order),
                                           token_budget, llm)]
        /\ UNCHANGED stored

sideVars == <<rewriteVars, gen, worldVars, outlineVars, bundleVars, rangeVars, arcVars,
                   styleVars, recapVars>>
SideIdle ==
    /\ RewriterIdle /\ gen = GenIdle /\ WorldIdle /\ OutlineIdle /\ BundleIdle
    /\ RangeIdle /\ ArcIdle /\ StyleIdle /\ RecapIdle

(***************************************************************************)
(* Specifications.                                                         *)
(***************************************************************************)
LedgerIdle ==
    /\ daily_budget \in Budgets
    /\ today = 1
    /\ records = <<>>
    /\ ledger_last = NoLedgerCall

WriteIdle ==
    /\ provider_calls = 0
    /\ write_last = NoWriteCall

\* a project as novel_crud.create leaves it
NovelFresh ==
    /\ workflow_status = "created"
    /\ current_step = 0
    /\ description \in {"", "idea"}
    /\ planning_content = NULL
    /\ world_building_raw = NULL
    /\ outline_raw = NULL
    /\ num_characters = 0
    /\ num_volumes = 0
    /\ chapters = <<>>
    /\ wf_last = NoWfCall

\* ---- the orchestrator's operations on one project, in any order ----
InitWorkflow ==
    /\ SideIdle
    /\ LedgerIdle /\ daily_budget = MaxBudget
    /\ WriteIdle
    /\ ConcIdle
    /\ PipelineIdle /\ orch = RealOrchestrator /\ run_limit = 0
    /\ NovelFresh

NextWorkflow ==
    /\ UNCHANGED <<sideVars, ledgerVars, concVars, write_last, pipeVars>>
    /\ \/ \E idea \in {NULL, "idea"} : step_1_planning(idea)
       \/ \E text \in {"json", "text"} : step_1_update(text)
       \/ \E outcome \in ReplyOutcomes, n \in 0..1 : step_2_world_building(outcome, n)
       \/ step_2_update("text")
       \/ \E outcome \in ReplyOutcomes \cup {"empty"}, n \in 0..MaxChapters :
             step_3_outline(outcome, n)
       \/ \E c \in 1..MaxChapters, outcome \in ReplyOutcomes :
             step_4_detail_outline(c, outcome)
       \/ \E outcomes \in [ChapterIds -> ReplyOutcomes] :
             step_4_batch_detail_outline(outcomes)
       \/ \E c \in 1..MaxChapters : step_5_writing(c)
       \/ \E c \in 1..MaxChapters, outcome \in ReplyOutcomes :
             step_6_quality_check(c, outcome)
       \/ step_6_batch_quality_check
       \/ mark_completed

SpecWorkflow == InitWorkflow /\ [][NextWorkflow]_vars

\* a project that has its outline: one volume holding the given chapter rows
NovelWithChapters(rows) ==
    /\ workflow_status = "outline"
    /\ current_step = 3
    /\ description = "idea"
    /\ planning_content = "json"
    /\ world_building_raw = NULL
    /\ outline_raw = NULL
    /\ num_characters = 1
    /\ num_volumes = 1
    /\ chapters = rows
    /\ wf_last = NoWfCall

\* ---- one caller of the ledger and of the chapter writer ----
InitLedger ==
    /\ SideIdle
    /\ LedgerIdle
    /\ WriteIdle
    /\ ConcIdle
    /\ PipelineIdle /\ orch = RealOrchestrator /\ run_limit = 0
    /\ \E row \in {OutlineChapterRow, BlankChapterRow} : NovelWithChapters(<<row>>)

NextLedger ==
    /\ UNCHANGED <<sideVars, concVars, writeVars, novelVars, chapters, wf_last, pipeVars>>
    /\ \/ \E cost \in Costs, tokens \in TokenCounts : add_cost(cost, tokens)
       \/ \E b \in 0..MaxBudget : reset_budget(b)
       \/ clear_today
       \/ NextDay

SpecLedger == InitLedger /\ [][NextLedger]_vars

\* ---- one caller of the chapter writer, the ledger filling up beside it ----
NextWrite ==
    /\ UNCHANGED <<sideVars, concVars, novelVars, wf_last, pipeVars>>
    /\ \/ /\ \E cost \in Costs, tokens \in TokenCounts : add_cost(cost, tokens)
          /\ write_last' = NoWriteCall
          /\ UNCHANGED <<provider_calls, chapters>>
       \/ /\ \E outcome \in ProviderOutcomes, cost \in Costs :
                ChapterGenerator_generate_and_save(1, outcome, cost)
          /\ ledger_last' = NoLedgerCall
          /\ UNCHANGED <<daily_budget, today, records>>

SpecWrite == InitLedger /\ [][NextWrite]_vars

\* ---- NumThreads threads, each making one add_cost call on the shared tracker ----
InitLedgerConc ==
    /\ SideIdle
    /\ LedgerIdle
    /\ WriteIdle
    /\ PipelineIdle /\ orch = RealOrchestrator /\ run_limit = 0
    /\ \E row \in {OutlineChapterRow} : NovelWithChapters(<<row>>)
    /\ \E k \in Costs :
          /\ k <= daily_budget
          /\ heap = [o \in ObjIds |->
                       IF o = 0 /\ k > 0
                          THEN [total_cost |-> k, total_tokens |-> 2, call_count |-> 1,
                                calls |-> <<[cost |-> k, tokens |-> 2]>>]
                          ELSE EmptyDayRecord]
          /\ cur = IF k > 0 THEN 0 ELSE NoObj
    /\ tpc = [t \in Threads |-> "start"]
    /\ tcost \in [Threads -> Costs]
    /\ tref = [t \in Threads |-> NoObj]
    /\ ttmp = [t \in Threads |-> 0]

NextLedgerConc ==
    /\ UNCHANGED <<sideVars, ledgerVars, writeVars, novelVars, chapters, wf_last, pipeVars>>
    /\ \E t \in Threads :
          \/ ConcCheck(t)
          \/ ConcTest(t)
          \/ ConcCreate(t)
          \/ ConcLookup(t)
          \/ ConcAppend(t)
          \/ ConcLoadCost(t)
          \/ ConcStoreCost(t)
          \/ ConcLoadTokens(t)
          \/ ConcStoreTokens(t)
          \/ ConcLoadCount(t)
          \/ ConcStoreCount(t)

SpecLedgerConc == InitLedgerConc /\ [][NextLedgerConc]_vars

\* a project whose world is built and whose outline is still to come
NovelWithWorld ==
    /\ workflow_status = "world_building"
    /\ current_step = 2
    /\ description = "idea"
    /\ planning_content = "json"
    /\ world_building_raw = NULL
    /\ outline_raw = NULL
    /\ num_characters = 1
    /\ num_volumes = 0
    /\ chapters = <<>>
    /\ wf_last = NoWfCall

\* ---- PipelineRunner.run, called once on a project ----
ChapterRanges == {<<>>, <<Single(1)>>, <<Range(2, 1)>>, <<Single(1), BadPart>>}

Plans == [from_step : PIPELINE_STEPS \cup {6}, to_step : PIPELINE_STEPS,
          chapter_range : ChapterRanges, regenerate : BOOLEAN,
          max_workers : 0..MaxWorkers]

\* _run_batch_parallel: the executors' workers and the collecting thread
ParallelSteps(outcomes) ==
    \/ \E c \in ChapterSlots : executor_start_step4(c)
    \/ \E c \in ChapterSlots, outcome \in outcomes : worker_step4(c, outcome)
    \/ \E c \in ChapterSlots : collect_step4(c)
    \/ run_batch_parallel_phase2
    \/ \E c \in ChapterSlots : executor_start_step5(c)
    \/ \E c \in ChapterSlots : worker_step5(c)
    \/ \E c \in ChapterSlots : collect_step5(c)
    \/ run_batch_parallel_return

\* the pipeline's steps, the plans and provider replies drawn from the given sets
PipelineSteps(plans, outcomes) ==
    \/ \E p \in plans, novel_exists \in BOOLEAN : run(p, novel_exists)
    \/ \E outcome \in outcomes : run_batch_serial_step4(outcome)
    \/ run_batch_serial_step5
    \/ ParallelSteps(outcomes)

InitPipeline ==
    /\ SideIdle
    /\ LedgerIdle /\ daily_budget = MaxBudget
    /\ WriteIdle
    /\ ConcIdle
    /\ PipelineIdle /\ orch = RealOrchestrator /\ run_limit = 1
    /\ \/ NovelWithWorld
       \/ \E row \in {OutlineChapterRow, BlankChapterRow, DetailedChapterRow} :
             NovelWithChapters([i \in 1..MaxChapters |-> row])

NextPipeline ==
    /\ UNCHANGED <<sideVars, ledgerVars, concVars, write_last, orch>>
    /\ PipelineSteps(Plans, ReplyOutcomes)

SpecPipeline == InitPipeline /\ [][NextPipeline]_vars

\* ---- PipelineRunner.run, called up to MaxRuns times on one chapter ----
RerunPlans == {p \in [from_step : {4, 5}, to_step : {4, 5},
                      chapter_range : {<<Single(1)>>}, regenerate : BOOLEAN,
                      max_workers : 1..MaxWorkers] : p.from_step <= p.to_step}

InitPipelineRerun ==
    /\ SideIdle
    /\ LedgerIdle /\ daily_budget = MaxBudget
    /\ WriteIdle
    /\ ConcIdle
    /\ PipelineIdle /\ orch = RealOrchestrator /\ run_limit = MaxRuns
    /\ \E row \in {OutlineChapterRow, BlankChapterRow} :
          NovelWithChapters([i \in 1..MaxChapters |-> row])

NextPipelineRerun ==
    /\ UNCHANGED <<sideVars, ledgerVars, concVars, write_last, orch>>
    /\ PipelineSteps(RerunPlans, ReplyOutcomes)

SpecPipelineRerun == InitPipelineRerun /\ [][NextPipelineRerun]_vars

\* ---- TestPipelineRunnerParallel: the six-chapter project, a mock
\* orchestrator whose step 4 fails on chapter 3 or on none, three workers ----
novel_with_chapters ==
    /\ workflow_status = "world_building"
    /\ current_step = 2
    /\ description = "idea"
    /\ planning_content = NULL
    /\ world_building_raw = NULL
    /\ outline_raw = NULL
    /\ num_characters = 0
    /\ num_volumes = FixtureVolumes
    /\ chapters = [i \in 1..FixtureChapters |-> BlankChapterRow]
    /\ wf_last = NoWfCall

FixtureFailIds == {{3}}

FixturePlans == {[from_step |-> 4, to_step |-> 5, chapter_range |-> <<>>,
                  regenerate |-> FALSE, max_workers |-> FixtureWorkers]}

InitPipelineFixture ==
    /\ SideIdle
    /\ LedgerIdle /\ daily_budget = MaxBudget
    /\ WriteIdle
    /\ ConcIdle
    /\ PipelineIdle /\ run_limit = 1
    /\ \E fail \in FixtureFailIds : orch = MockOrchestrator(fail, {})
    /\ novel_with_chapters

NextPipelineFixture ==
    /\ UNCHANGED <<sideVars, ledgerVars, concVars, write_last, orch>>
    /\ \/ \E p \in FixturePlans : run(p, TRUE)
       \/ ParallelSteps({"ok"})

SpecPipelineFixture == InitPipelineFixture /\ [][NextPipelineFixture]_vars

\* ---- TestPipelineRunnerParallel.test_max_workers_1_uses_serial_path and
\* its neighbours: steps 4 to 5 over a project of blank chapters, the mock
\* orchestrator failing on any set of chapters, any worker count ----
FailurePatterns == SUBSET (1..MaxChapters)

\* every chapter (None), or "2,1-2": the second chapter named twice
WorkerRanges == {<<>>, <<Single(2), Range(1, 2)>>}

WorkerPlans == {[from_step |-> 4, to_step |-> 5, chapter_range |-> r,
                 regenerate |-> FALSE, max_workers |-> w] :
                    r \in WorkerRanges, w \in 0..MaxWorkers}

InitPipelineWorkers ==
    /\ SideIdle
    /\ LedgerIdle /\ daily_budget = MaxBudget
    /\ WriteIdle
    /\ ConcIdle
    /\ PipelineIdle /\ run_limit = 1
    /\ \E step4_fail \in FailurePatterns, step5_fail \in FailurePatterns :
          orch = MockOrchestrator(step4_fail, step5_fail)
    /\ NovelWithChapters([i \in 1..MaxChapters |-> BlankChapterRow])

NextPipelineWorkers ==
    /\ UNCHANGED <<sideVars, ledgerVars, concVars, write_last, orch>>
    /\ PipelineSteps(WorkerPlans, {"ok"})

SpecPipelineWorkers == InitPipelineWorkers /\ [][NextPipelineWorkers]_vars

\* ---- ChapterRewriter: rewrites and rollbacks of one chapter ----
LLMReplies == {[raised |-> TRUE, content |-> <<>>],
               [raised |-> FALSE, content |-> <<"n">>],
               [raised |-> FALSE, content |-> <<"b">>],
               [raised |-> FALSE, content |-> <<"b", "L", "b">>],
               [raised |-> FALSE, content |-> <<"b", "n", "n", "b">>]}

\* chapter bodies: one paragraph, two, a body with stray white space, a
\* single line break, a line separator inside a paragraph
Bodies == {<<"a">>, <<"a", "n", "n", "a">>, <<"n", "a", "n", "n", "n", "a", "n">>,
           <<"a", "n", "a">>, <<"a", "L", "a">>}

HistoryIds == {NULL} \cup {ToString(k) : k \in 0..MaxRewrites}

\* the chapter has a body; its history file is absent, or holds the record
\* of an earlier rewrite that produced this body
InitRewrite ==
    /\ LedgerIdle /\ daily_budget = MaxBudget
    /\ WriteIdle
    /\ ConcIdle
    /\ NovelFresh /\ description = "idea"
    /\ PipelineIdle /\ orch = RealOrchestrator /\ run_limit = 0
    /\ body \in Bodies
    /\ history_file \in {<<>>, append_rewrite_history(<<>>,
                                   [history_id |-> ToString(0), original_content |-> <<"a">>,
                                    new_content |-> body])}
    /\ rewrites = 0
    /\ rw_last = NoRwCall
    /\ rw_prev = NoRwCall
    /\ chapter_summary = NoSummary
    /\ gen = GenIdle
    /\ WorldIdle
    /\ OutlineIdle
    /\ BundleIdle
    /\ RangeIdle /\ ArcIdle /\ StyleIdle /\ RecapIdle

NextRewrite ==
    /\ UNCHANGED <<ledgerVars, writeVars, concVars, novelVars, chapters, wf_last, pipeVars,
                   gen, worldVars, outlineVars, bundleVars, rangeVars, arcVars,
                   styleVars, recapVars>>
    /\ \/ \E target_scope \in {"paragraph", "chapter"}, range_start \in 0..MaxParagraphs,
             range_end \in 0..MaxParagraphs, save \in BOOLEAN, reply \in LLMReplies :
                rewrite(target_scope, range_start, range_end, save, reply)
       \/ \E history_id \in HistoryIds, save \in BOOLEAN : rollback(history_id, save)
       \/ compress_and_cache

SpecRewrite == InitRewrite /\ [][NextRewrite]_vars

\* ---- generate calls on one client after another ----
InitGenerate ==
    /\ LedgerIdle /\ daily_budget = MaxBudget
    /\ WriteIdle
    /\ ConcIdle
    /\ NovelFresh /\ description = "idea"
    /\ PipelineIdle /\ orch = RealOrchestrator /\ run_limit = 0
    /\ RewriterIdle
    /\ gen = GenIdle
    /\ WorldIdle
    /\ OutlineIdle
    /\ BundleIdle
    /\ RangeIdle /\ ArcIdle /\ StyleIdle /\ RecapIdle

NextGenerate ==
    /\ UNCHANGED <<ledgerVars, writeVars, concVars, novelVars, chapters, wf_last, pipeVars,
                   rewriteVars, worldVars, outlineVars, bundleVars, rangeVars, arcVars,
                   styleVars, recapVars>>
    /\ \/ \E client \in Clients : generate_call(client)
       \/ \E reply \in ProviderReplies : generate_attempt(reply)
       \/ generate_backoff

SpecGenerate == InitGenerate /\ [][NextGenerate]_vars

\* ---- the whole pipeline on a fresh project with a seed idea: the plan
\* (generated, or written by step_1_update), the world, then one serial
\* run() over steps 3 to 5 ----
FullPlans == {[from_step |-> 3, to_step |-> 5, chapter_range |-> <<>>,
               regenerate |-> FALSE, max_workers |-> 1]}

InitFullPipeline ==
    /\ SideIdle
    /\ LedgerIdle /\ daily_budget = MaxBudget
    /\ WriteIdle
    /\ ConcIdle
    /\ PipelineIdle /\ orch = RealOrchestrator /\ run_limit = 1
    /\ NovelFresh /\ description = "idea"

NextFullPipeline ==
    /\ UNCHANGED <<sideVars, ledgerVars, concVars, write_last, orch>>
    /\ \/ /\ pc = "idle"
          /\ UNCHANGED <<plan, pc, run_error, runs, run_limit, chapter_infos, idx, result,
                         step4_failed, fut4, fut5, log4, log5, log3>>
          /\ \/ step_1_planning("idea")
             \/ \E text \in {"json", "text"} : step_1_update(text)
             \/ \E outcome \in ReplyOutcomes, n \in 0..MaxChapters :
                   step_2_world_building(outcome, n)
       \/ \E p \in FullPlans : run(p, TRUE)
       \/ \E outcome \in ReplyOutcomes : run_batch_serial_step4(outcome)
       \/ run_batch_serial_step5

SpecFullPipeline == InitFullPipeline /\ [][NextFullPipeline]_vars

\* ---- build_world calls on a project that may already have a world ----
\* a parsed reply: the lengths of its two lists and the entry that raises
WorldReplies ==
    {[kind |-> k, world_data |-> 0, characters |-> 0, bad |-> 0] : k \in {"error", "unparsable"}}
        \cup {r \in [kind : {"json"}, world_data : 0..MaxItems, characters : 0..MaxItems,
                     bad : 0..(2 * MaxItems)] : r.bad <= r.world_data + r.characters}

OldRows == {WbRow(ThisNovel, "world", 1, 0), WbRow(ThisNovel, "character", 1, 0)}
OtherRows == {WbRow(OtherNovel, "character", 1, 0)}

InitWorld ==
    /\ LedgerIdle /\ daily_budget = MaxBudget
    /\ WriteIdle
    /\ ConcIdle
    /\ PipelineIdle /\ orch = RealOrchestrator /\ run_limit = 0
    /\ RewriterIdle
    /\ gen = GenIdle
    /\ OutlineIdle
    /\ BundleIdle
    /\ RangeIdle /\ ArcIdle /\ StyleIdle /\ RecapIdle
    /\ \E old \in SUBSET OldRows :
          /\ db_rows = old \cup OtherRows
          /\ sess_rows = old \cup OtherRows
          /\ num_characters = Cardinality({r \in old : r.kind = "character"})
    /\ txn = "none"
    /\ builds = 0
    /\ wb_last = NoWbCall
    /\ description = "idea"
    /\ \/ workflow_status = "created" /\ current_step = 0 /\ planning_content = NULL
       \/ workflow_status = "planning" /\ current_step = 1 /\ planning_content = "json"
    /\ world_building_raw = NULL
    /\ outline_raw = NULL
    /\ num_volumes = 0
    /\ chapters = <<>>
    /\ wf_last = NoWfCall

NextWorld ==
    /\ UNCHANGED <<ledgerVars, concVars, write_last, pipeVars, rewriteVars, gen, outlineVars, bundleVars, rangeVars, arcVars,
                   styleVars, recapVars>>
    /\ \/ \E reply \in WorldReplies : build_world(reply)
       \/ session_scope_exit

SpecWorld == InitWorld /\ [][NextWorld]_vars

\* ---- one outline generation on a project whose world is built ----
\* the outline of the continuation scenario: V1 with chapters C1 and C2
FixtureOutline == Outline(<<2>>)

\* a reply cut at every place, and the rest of it
FirstHalves ==
    {SubSeq(dump_outline(FixtureOutline), 1, k) : k \in 1..(Len(dump_outline(FixtureOutline)) - 1)}
SecondHalves ==
    {SubSeq(dump_outline(FixtureOutline), k + 1, Len(dump_outline(FixtureOutline))) :
        k \in 1..(Len(dump_outline(FixtureOutline)) - 1)}

OutlineContents ==
    FirstHalves \cup SecondHalves
        \cup {<<>>, <<"x">>, <<"N">>, <<"n", "N", "n">>,
              dump_outline(FixtureOutline),
              dump_outline(Outline(<<>>)),
              dump_outline(Outline(<<1, 1>>)),
              <<"F", "n">> \o dump_outline(FixtureOutline) \o <<"n", "F">>,
              <<"x", "n">> \o dump_outline(FixtureOutline) \o <<"n", "x">>,
              <<"F", "n">> \o SubSeq(dump_outline(FixtureOutline), 1, 7)}

OutlineReplies ==
    {[raised |-> TRUE, content |-> <<>>, finish_reason |-> "stop"]}
        \cup [raised : {FALSE}, content : OutlineContents, finish_reason : {"stop", "length"}]

InitOutline ==
    /\ LedgerIdle /\ daily_budget = MaxBudget
    /\ WriteIdle
    /\ ConcIdle
    /\ PipelineIdle /\ orch = RealOrchestrator /\ run_limit = 0
    /\ RewriterIdle
    /\ gen = GenIdle
    /\ WorldIdle
    /\ OutlineIdle
    /\ BundleIdle
    /\ RangeIdle /\ ArcIdle /\ StyleIdle /\ RecapIdle
    /\ workflow_status = "world_building"
    /\ current_step = 2
    /\ description = "idea"
    /\ planning_content = "json"
    /\ world_building_raw = NULL
    /\ outline_raw = NULL
    /\ num_characters \in {0, 1}
    /\ num_volumes = 0
    /\ chapters = <<>>
    /\ wf_last = NoWfCall

NextOutline ==
    /\ UNCHANGED <<ledgerVars, concVars, write_last, pipeVars, rewriteVars, gen, worldVars, bundleVars, rangeVars, arcVars,
                   styleVars, recapVars>>
    /\ \/ generate_outline_call
       \/ \E reply \in OutlineReplies : generate_outline_attempt(reply)

SpecOutline == InitOutline /\ [][NextOutline]_vars

\* ---- bundles built for a chapter of a project with some stored cards ----
LoreEntries ==
    {<<>>, <<[name |-> "A", hit |-> TRUE]>>,
     <<[name |-> "A", hit |-> FALSE], [name |-> "B", hit |-> TRUE]>>}

Retrievals == {"lorebook", "characters", "world", "plot_arcs"}

InitBundle ==
    /\ LedgerIdle /\ daily_budget = MaxBudget
    /\ WriteIdle
    /\ ConcIdle
    /\ PipelineIdle /\ orch = RealOrchestrator /\ run_limit = 0
    /\ NovelFresh /\ description = "idea"
    /\ RewriterIdle
    /\ gen = GenIdle
    /\ WorldIdle
    /\ OutlineIdle
    /\ RangeIdle /\ ArcIdle /\ StyleIdle /\ RecapIdle
    /\ lore \in [characters : LoreEntries, world : LoreEntries, arcs : LoreEntries]
    /\ bundle_last = NoBundleCall

NextBundle ==
    /\ UNCHANGED <<ledgerVars, writeVars, concVars, novelVars, chapters, wf_last, pipeVars,
                   rewriteVars, gen, worldVars, outlineVars, rangeVars, arcVars,
                   styleVars, recapVars>>
    /\ \/ \E novel_id_given \in BOOLEAN, volume_found \in BOOLEAN, scan_text \in BOOLEAN,
             fails \in SUBSET Retrievals :
                build_context_bundle(novel_id_given, volume_found, scan_text, fails)
       \/ \E use_previous_context \in BOOLEAN : generate_chapter(use_previous_context)

SpecBundle == InitBundle /\ [][NextBundle]_vars

\* ---- the components above left alone ----
baseVars == <<ledgerVars, writeVars, concVars, novelVars, chapters, wf_last, pipeVars>>

BaseIdle ==
    /\ LedgerIdle /\ daily_budget = MaxBudget
    /\ WriteIdle
    /\ ConcIdle
    /\ PipelineIdle /\ orch = RealOrchestrator /\ run_limit = 0
    /\ NovelFresh /\ description = "idea"

\* ---- parse_chapter_range applied to every text of up to MaxRangeLen
\* characters and every chapter count up to MaxChapters ----
RangeAlphabet == {"0", "1", "2", ",", "-", " ", "x"}

RangeTexts == UNION {[1..n -> RangeAlphabet] : n \in 0..MaxRangeLen}

InitRange ==
    /\ BaseIdle
    /\ RewriterIdle /\ gen = GenIdle /\ WorldIdle /\ OutlineIdle /\ BundleIdle
    /\ ArcIdle /\ StyleIdle /\ RecapIdle
    /\ range_text \in RangeTexts
    /\ range_total \in 0..MaxChapters
    /\ range_last = NoRangeCall

NextRange ==
    /\ UNCHANGED <<baseVars, rewriteVars, gen, worldVars, outlineVars, bundleVars,
                   arcVars, styleVars, recapVars>>
    /\ call_parse_chapter_range

SpecRange == InitRange /\ [][NextRange]_vars

\* ---- PlotArcTracker calls on a project's arcs, in any order ----
\* the chapter numbers the calls are given: None, chapter 1, chapter 2
ArcChapters == {0, 1, 2}

InitArcs ==
    /\ BaseIdle
    /\ RewriterIdle /\ gen = GenIdle /\ WorldIdle /\ OutlineIdle /\ BundleIdle
    /\ RangeIdle /\ StyleIdle /\ RecapIdle
    /\ ArcIdle

NextArcs ==
    /\ UNCHANGED <<baseVars, rewriteVars, gen, worldVars, outlineVars, bundleVars,
                   rangeVars, styleVars, recapVars>>
    /\ \/ \E planted_chapter \in ArcChapters : plant(planted_chapter)
       \/ \E arc_id \in 1..MaxArcs : develop(arc_id)
       \/ \E arc_id \in 1..MaxArcs, resolved_chapter \in ArcChapters :
             resolve(arc_id, resolved_chapter)
       \/ \E arc_id \in 1..MaxArcs : abandon(arc_id)

SpecArcs == InitArcs /\ [][NextArcs]_vars

\* ---- style-profile calls on two projects, in any order ----
InitStyle ==
    /\ BaseIdle
    /\ RewriterIdle /\ gen = GenIdle /\ WorldIdle /\ OutlineIdle /\ BundleIdle
    /\ RangeIdle /\ ArcIdle /\ RecapIdle
    /\ StyleIdle

NextStyle ==
    /\ UNCHANGED <<baseVars, rewriteVars, gen, worldVars, outlineVars, bundleVars,
                   rangeVars, arcVars, recapVars>>
    /\ \E novel_id \in {ThisNovel, OtherNovel} :
          \/ \E is_active \in BOOLEAN : style_profile_crud_create(novel_id, is_active)
          \/ \E set_active_flag \in BOOLEAN, analyze_raises \in BOOLEAN :
                analyze_and_save(novel_id, set_active_flag, analyze_raises)
          \/ \E profile_id \in 1..MaxProfiles : set_active(novel_id, profile_id)
          \/ \E profile_id \in 1..MaxProfiles, rolled_back \in BOOLEAN :
                activate_style_profile(novel_id, profile_id, rolled_back)

SpecStyle == InitStyle /\ [][NextStyle]_vars

\* ---- recaps built over a volume's stored chapters ----
\* a chapter row: no content; a short content; a long content without a
\* cached summary, with a cached summary, with a long cached summary
StoredKinds ==
    {[content |-> 0, summary |-> 0], [content |-> 40, summary |-> 0],
     [content |-> 1000, summary |-> 0], [content |-> 1000, summary |-> 120],
     [content |-> 1000, summary |-> 400]}

TokenBudgets == {0, 20, 34, 80, 134, 800}

\* the provider's summary has the length asked for, or twice that, or the
\* call raises
LlmOutcomes ==
    {[raised |-> TRUE, length |-> [l \in {"detailed", "brief", "minimal"} |-> 0]],
     [raised |-> FALSE, length |-> [l \in {"detailed", "brief", "minimal"} |-> target_words(l)]],
     [raised |-> FALSE,
      length |-> [l \in {"detailed", "brief", "minimal"} |-> 2 * target_words(l)]]}

InitRecap ==
    /\ BaseIdle
    /\ RewriterIdle /\ gen = GenIdle /\ WorldIdle /\ OutlineIdle /\ BundleIdle
    /\ RangeIdle /\ ArcIdle /\ StyleIdle
    /\ stored \in [1..MaxOrder -> StoredKinds]
    /\ recap_last = NoRecapCall

NextRecap ==
    /\ UNCHANGED <<baseVars, rewriteVars, gen, worldVars, outlineVars, bundleVars,
                   rangeVars, arcVars, styleVars>>
    /\ \E current_order \in 1..(MaxOrder + 1), window_size \in {2, 10},
          token_budget \in TokenBudgets, llm \in LlmOutcomes :
             build_previous_context(current_order, window_size, token_budget, llm)

SpecRecap == InitRecap /\ [][NextRecap]_vars

(***************************************************************************)
(* The claims.                                                             *)
(***************************************************************************)
Max(a, b) == IF a >= b THEN a ELSE b

GenerationStages == {"step_1_planning", "step_2_world_building", "step_3_outline",
                     "step_4_detail_outline", "step_4_batch_detail_outline",
                     "step_5_writing", "step_6_quality_check",
                     "step_6_batch_quality_check"}

\* the positions of the current result's records for chapter c and the step
ResultsFor(c, step) ==
    {i \in DOMAIN result.task_results :
        result.task_results[i].chapter_id = c /\ result.task_results[i].step = step}

\* the chapters whose _run_step4 / _run_step5 ran in the current run
RanStep4 == {c \in ChapterSlots : log4[c] # <<>> /\ Last(log4[c]).run = runs}
RanStep5 == {c \in ChapterSlots : log5[c] # <<>> /\ Last(log5[c]).run = runs}

\* the chapters of the batch with a failed step-4 record in the current result
FailedStep4 ==
    {c \in Targets : \E i \in ResultsFor(c, 4) : ~result.task_results[i].success}

\* C1: in a parallel run over steps 4 and 5 no step-5 task begins (is picked
\* up by a worker) until every step-4 task of the batch has finished.
C1_Step5BeginsAfterAllStep4 ==
    \A c \in ChapterSlots :
        fut5[c] \in {"running", "done", "collected"} =>
            \A d \in ChapterSlots : fut4[d] \in {"none", "done", "collected"}

C1_Witness ==
    /\ pc = "phase2"
    /\ plan.from_step <= 4 /\ plan.to_step = 5
    /\ \E c \in ChapterSlots : fut5[c] = "running"
    /\ Cardinality({d \in ChapterSlots : fut4[d] = "collected"}) >= 2

\* C2: an exception inside one chapter's step-4 or step-5 task is recorded as
\* a TaskResult with success=false and never leaves run(): once a chapter task
\* has run, run() does not raise; when it returns, every chapter of the batch
\* has one record for each step of the plan, and each task that raised is
\* among them as a failure. Serial and parallel.
C2_TaskExceptionIsCaptured ==
    /\ pc = "raised" =>
          /\ run_error \in {"ValueError", "NovelNotFoundError", "InsufficientDataError",
                            "step3"}
          /\ RanStep4 = {} /\ RanStep5 = {}
    /\ (pc = "returned" /\ plan.to_step >= 4) =>
          /\ \A c \in Targets :
                /\ plan.from_step <= 4 => Cardinality(ResultsFor(c, 4)) = 1
                /\ plan.to_step >= 5 => Cardinality(ResultsFor(c, 5)) = 1
          /\ \A c \in RanStep4 :
                Last(log4[c]).kind \notin {"ok", "skipped"} =>
                   \E i \in ResultsFor(c, 4) :
                      result.task_results[i] = TaskResult(c, 4, FALSE, "exception", FALSE)
          /\ \A c \in RanStep5 :
                Last(log5[c]).kind \notin {"ok", "skipped"} =>
                   \E i \in ResultsFor(c, 5) :
                      result.task_results[i] = TaskResult(c, 5, FALSE, "exception", FALSE)

C2_Witness ==
    /\ pc = "returned"
    /\ plan.max_workers = 1
    /\ plan.from_step <= 4 /\ plan.to_step >= 4
    /\ Len(chapter_infos) >= 2
    /\ chapter_infos[1] \in RanStep4 /\ Last(log4[chapter_infos[1]]).kind = "failed"
    /\ chapter_infos[2] \in RanStep4 /\ Last(log4[chapter_infos[2]]).kind = "ok"

\* C3: when a chapter's step 4 fails and the plan reaches step 5, step 5 is
\* never run for that chapter, the result holds exactly one step-5 record for
\* it, the "skipped because step 4 failed" failure, and skipped counts one per
\* such chapter. Serial and parallel.
C3_Step5SkippedAfterStep4Failure ==
    /\ \A c \in FailedStep4 : fut5[c] = "none" /\ c \notin RanStep5
    /\ (pc = "returned" /\ plan.to_step >= 5) =>
          /\ \A c \in FailedStep4 :
                /\ Cardinality(ResultsFor(c, 5)) = 1
                /\ \A i \in ResultsFor(c, 5) :
                      result.task_results[i] =
                         TaskResult(c, 5, FALSE, "step4_failed_skip_step5", FALSE)
          /\ result.skipped = Cardinality(FailedStep4)

C3_Witness ==
    /\ pc = "returned"
    /\ plan.max_workers >= 2
    /\ plan.to_step >= 5
    /\ FailedStep4 # {}
    /\ result.skipped >= 1
    /\ \E d \in Targets \ FailedStep4 : d \in RanStep5

\* C4: across stage-generation and edit operations current_step never
\* decreases, and after a stage numbered k succeeds it equals
\* max(previous current_step, k).
C4_CurrentStepNeverDecreases ==
    /\ wf_last.op # "none" => current_step >= wf_last.step_before
    /\ (wf_last.op \in GenerationStages /\ ~wf_last.raised) =>
          current_step = Max(wf_last.step_before, wf_last.stage)

\* C5: every interleaving of concurrent add_cost calls leaves the ledger that
\* the same calls made one at a time, in some order, would leave: the same
\* calls raise, no entry or aggregate update is lost, and the day total stays
\* within the daily budget.
AllReturned == \A t \in Threads : tpc[t] \in {"returned", "raised"}

RECURSIVE SerialAdds(_, _, _)
SerialAdds(order, present, rec) ==
    IF order = <<>>
       THEN [present |-> present, rec |-> rec, raised |-> {}]
       ELSE LET t == Head(order)
                ok == check_budget(rec.total_cost, tcost[t], daily_budget)
                next == IF ok
                           THEN [total_cost |-> rec.total_cost + tcost[t],
                                 total_tokens |-> rec.total_tokens + 2,
                                 call_count |-> rec.call_count + 1,
                                 calls |-> Append(rec.calls, [cost |-> tcost[t], tokens |-> 2])]
                           ELSE rec
                rest == SerialAdds(Tail(order), present \/ ok, next)
            IN  [rest EXCEPT !.raised = IF ok THEN @ ELSE @ \cup {t}]

ThreadOrders == {o \in [1..NumThreads -> Threads] : \A i, j \in 1..NumThreads : o[i] = o[j] => i = j}

C5_ConcurrentAddsSerializable ==
    AllReturned =>
       /\ \E o \in ThreadOrders :
             LET s == SerialAdds(o, heap[0].call_count > 0, heap[0])
             IN  /\ {t \in Threads : tpc[t] = "raised"} = s.raised
                 /\ (cur # NoObj) = s.present
                 /\ cur # NoObj => heap[cur] = s.rec
       /\ cur # NoObj => heap[cur].total_cost <= daily_budget

\* C6: add_cost called when today's total plus the cost exceeds the daily
\* budget raises BudgetExceededError and leaves every day's entries, total
\* cost, total tokens and call count as they were.
C6_FailedAddLeavesLedgerUnchanged ==
    (ledger_last.op = "add_cost"
       /\ ledger_last.pre_total + ledger_last.cost > ledger_last.budget) =>
          /\ ledger_last.raised
          /\ records = ledger_last.before

C6_Witness ==
    /\ ledger_last.op = "add_cost"
    /\ ledger_last.raised
    /\ today \in DOMAIN records
    /\ records[today].call_count > 0
    /\ records[today].total_cost + ledger_last.cost > daily_budget

\* C7: a write whose projected cost exceeds the remaining daily budget raises
\* BudgetExceeded before any provider call, leaving the chapter body and the
\* ledger unchanged.
C7_WriteOverBudgetRaisesBeforeProviderCall ==
    (write_last.op = "write"
       /\ write_last.pre_total + write_last.cost > write_last.budget) =>
          /\ write_last.raised = "BudgetExceeded"
          /\ provider_calls = write_last.calls_before
          /\ chapters[1].content = write_last.body_before
          /\ records = write_last.records_before

C10_Step5RerunMakesOneCall ==
    \A c \in ChapterSlots :
        (Len(log5[c]) >= 2 /\ ~log5[c][1].regenerate /\ ~log5[c][2].regenerate) =>
            /\ log5[c][1].kind = "ok"
            /\ log5[c][2].kind = "skipped"
            /\ log5[c][1].calls + log5[c][2].calls = 1

\* the tasks of the current run that raised: <<chapter, step>>
RaisedTasks ==
    {<<c, 4>> : c \in {d \in RanStep4 : Last(log4[d]).kind \notin {"ok", "skipped"}}}
    \cup {<<c, 5>> : c \in {d \in RanStep5 : Last(log5[d]).kind \notin {"ok", "skipped"}}}

\* C11: a run over the six-chapter project with from_step 4, to_step 5 and
\* three workers in which chapter 3's step 4 is the only task that fails
\* returns total = 6, succeeded = 10, failed = 1 and skipped = 1.
C11_OneStep4FailureCounts ==
    (/\ pc = "returned"
     /\ Len(chapters) = 6
     /\ plan.from_step = 4 /\ plan.to_step = 5 /\ plan.max_workers = 3
     /\ RaisedTasks = {<<3, 4>>}) =>
        /\ result.total = 6
        /\ result.succeeded = 10
        /\ result.failed = 1
        /\ result.skipped = 1

C11_Witness ==
    /\ pc = "returned"
    /\ Len(chapters) = 6
    /\ plan.from_step = 4 /\ plan.to_step = 5 /\ plan.max_workers = 3
    /\ RaisedTasks = {<<3, 4>>}
    /\ Len(result.task_results) = 12

\* C12: the failed_chapter_ids of a returned result hold the id of every
\* chapter with a failed task exactly once, and no other id.
C12_FailedChapterIdsOnce ==
    pc = "returned" =>
        LET ids == failed_chapter_ids(result)
            times(c) == Cardinality({i \in DOMAIN ids : ids[i] = c})
        IN  \A c \in ChapterSlots :
                times(c) = IF \E t \in RaisedTasks : t[1] = c THEN 1 ELSE 0

\* C13: a rewrite of a paragraph range with save=true that succeeded, followed
\* at once by rollback with no history id (and save), leaves the chapter body
\* equal, character for character, to the body before the rewrite.
C13_RollbackRestoresBody ==
    (/\ rw_last.op = "rollback" /\ rw_last.history_id = NULL /\ rw_last.save
     /\ rw_prev.op = "rewrite" /\ ~rw_prev.raised /\ rw_prev.save
     /\ rw_prev.scope = "paragraph") =>
        /\ ~rw_last.raised
        /\ body = rw_prev.body_before

\* C14: a generate call makes at most three provider attempts; an attempt
\* after the first is made only when the attempt before it met a rate-limit
\* error; a token-limit or authentication error ends the call at once, raised
\* to the caller.
C14_RetryOnlyAfterRateLimit ==
    /\ Len(gen.attempts) <= 3
    /\ \A i \in 2..Len(gen.attempts) : gen.attempts[i - 1].kind = "rate_limit"
    /\ \A i \in 1..Len(gen.attempts) :
          gen.attempts[i].kind \in {"token_limit", "auth"} =>
              i = Len(gen.attempts) /\ gen.pc = "raised"

\* a plan with a bad step range, or with a chapter_range part of neither form
InvalidPlan(p) ==
    \/ ~validate_plan(p.from_step, p.to_step)
    \/ \E i \in DOMAIN p.chapter_range : p.chapter_range[i].kind = "bad"

\* C15: a run whose plan has a bad step range or a malformed chapter_range
\* raises, and when it does no step-3, step-4 or step-5 generation has been
\* invoked and the project is as it was.
C15_InvalidPlanRejectedBeforeWork ==
    (runs = 1 /\ InvalidPlan(plan)) =>
        /\ pc = "raised"
        /\ wf_last = NoWfCall
        /\ provider_calls = 0
        /\ log4 = [c \in ChapterSlots |-> <<>>]
        /\ log5 = [c \in ChapterSlots |-> <<>>]

\* the _run_step3 executions of the current run
Step3OfRun == SelectSeq(log3, LAMBDA e : e.run = runs)

\* C16: when step 3 fails (step_3_outline raises) during a run, the run
\* raises the step-3 error and no step-4 or step-5 task of any chapter is
\* executed or recorded.
C16_Step3FailureAbortsRun ==
    \A i \in DOMAIN Step3OfRun :
        Step3OfRun[i].kind = "failed" =>
            /\ pc = "raised"
            /\ run_error = "step3"
            /\ RanStep4 = {} /\ RanStep5 = {}
            /\ result.task_results = <<>>

C16_Witness ==
    /\ pc = "raised"
    /\ run_error = "step3"
    /\ Step3OfRun # <<>> /\ Step3OfRun[1].kind = "failed"
    /\ plan.to_step = 5
    /\ chapters # <<>>

\* C17: a run with from_step <= 3 executes _run_step3 at most once, and
\* invokes no outline generation when the project already had a Volume and
\* current_step >= 3 and regenerate is false.
C17_Step3OncePerRunAndIdempotent ==
    /\ Len(Step3OfRun) <= 1
    /\ \A i \in DOMAIN Step3OfRun :
          (Step3OfRun[i].already_done /\ ~Step3OfRun[i].regenerate) =>
              Step3OfRun[i].kind = "skipped" /\ Step3OfRun[i].calls = 0
    /\ (runs >= 1 /\ plan.from_step > 3) => Step3OfRun = <<>>

C17_Witness ==
    /\ pc = "returned"
    /\ plan.from_step = 3 /\ plan.to_step = 5 /\ ~plan.regenerate
    /\ Len(Step3OfRun) = 1
    /\ Step3OfRun[1].already_done /\ Step3OfRun[1].kind = "skipped"
    /\ provider_calls >= 1

\* plan, build_world and the run over steps 3 to 5 have all completed, every
\* reply parsed, no task failed
FullPipelineCompleted ==
    /\ pc = "returned"
    /\ plan.from_step = 3 /\ plan.to_step = 5 /\ plan.max_workers = 1
    /\ planning_content # NULL
    /\ num_characters > 0 /\ world_building_raw = NULL
    /\ Step3OfRun # <<>> /\ Step3OfRun[1].kind = "ok" /\ outline_raw = NULL
    /\ chapters # <<>>
    /\ result.failed = 0

\* C18: on a fresh project with a seed idea, once plan, build_world and
\* run_pipeline(from 3, to 5, one worker) have completed with parseable
\* output, the project's stage is writing and its current_step is 5.
C18_FullPipelineEndsInWriting ==
    FullPipelineCompleted => (workflow_status = "writing" /\ current_step = 5)

\* C19: every provider call of a generation stage is one cost-ledger entry;
\* after the full pipeline over n chapters the ledger holds 1+1+1+n+n entries.
C19_ProviderCallsAreLedgerEntries ==
    /\ pc \in {"idle", "returned", "raised"} => TotalCalls(records) = provider_calls
    /\ FullPipelineCompleted => TotalCalls(records) = 3 + 2 * Len(chapters)

\* C20: stage-2 persistence is all-or-nothing. After build_world has returned
\* with a parsed reply the project's Character and WorldData rows are exactly
\* the rows of that reply; after a parse failure or an exception they are
\* exactly the rows from before the call; the database never holds a mix, and
\* once the session scope is left the session sees what the database holds.
\* Rows of other projects are untouched throughout.
C20_WorldAllOrNothing ==
    /\ delete_rows(db_rows, ThisNovel) = OtherRows
    /\ wb_last.op = "build_world" =>
          /\ (~wb_last.raised /\ ~wb_last.parse_failed)
                => ProjectRows(db_rows) = wb_last.parsed
          /\ (wb_last.raised \/ wb_last.parse_failed)
                => ProjectRows(db_rows) = wb_last.before
          /\ txn = "none" => sess_rows = db_rows

\* an exception after the old rows were deleted and part of the new ones
\* flushed, and the session scope left
C20_Witness ==
    /\ wb_last.op = "build_world"
    /\ wb_last.raised
    /\ wb_last.before # {}
    /\ wb_last.flushed # {}
    /\ wb_last.flushed # wb_last.parsed
    /\ wb_last.flushed \cap wb_last.before = {}
    /\ txn = "none"
    /\ builds = MaxBuilds

\* the text has more opening than closing braces
Unclosed(content) == count(content, "{") > count(content, "}")

\* the first reply was cut off (finish_reason = length) with its JSON unclosed
FirstReplyTruncated ==
    /\ Len(og.replies) >= 1
    /\ ~og.replies[1].raised
    /\ og.replies[1].finish_reason = "length"
    /\ Unclosed(og.replies[1].content)

\* the second reply completes the first: together they are the text of an
\* outline with at least one volume
SecondReplyCompletes(o) ==
    /\ Len(og.replies) = 2
    /\ ~og.replies[2].raised
    /\ o # <<>>
    /\ og.replies[1].content \o og.replies[2].content = dump_outline(o)

\* C21: after a first stage-3 reply with finish_reason = length and unclosed
\* JSON the generator goes on to a second call whose messages hold the first
\* reply as the assistant's turn; when the second reply completes the first,
\* the concatenation is parsed and that one outline is persisted, after
\* exactly two provider calls.
C21_ContinuationCompletesOutline ==
    FirstReplyTruncated =>
       /\ Len(og.replies) = 1 =>
             /\ og.pc = "generating"
             /\ og.attempt = 2
             /\ \E i \in DOMAIN og.messages :
                   og.messages[i] = [role |-> "assistant", content |-> og.replies[1].content]
       /\ \A o \in KnownOutlines :
             SecondReplyCompletes(o) =>
                /\ Len(og.sent) = 2
                /\ \E i \in DOMAIN og.sent[2] :
                      og.sent[2][i] = [role |-> "assistant", content |-> og.replies[1].content]
                /\ og.pc = "returned"
                /\ ~og.parse_failed
                /\ og.raw_content = dump_outline(o)
                /\ volume_rows = o
                /\ Len(chapters) = chapters_created(o)
                /\ provider_calls = 2

\* V1 with C1 and C2 persisted out of two halves
C21_Witness ==
    /\ FirstReplyTruncated
    /\ SecondReplyCompletes(FixtureOutline)
    /\ volume_rows = FixtureOutline
    /\ provider_calls = 2

\* the text the generation ended with is not the text of an outline
EndedUnparsed ==
    /\ og.pc \in {"returned", "raised"}
    /\ og.replies # <<>>
    /\ \A i \in DOMAIN og.replies : ~og.replies[i].raised
    /\ outline_json_loads(extract_json_candidate(og.replies[Len(og.replies)].content)).kind
          # "outline"
    /\ outline_json_loads(extract_json_candidate(
          join([i \in DOMAIN og.replies |-> og.replies[i].content], <<>>))).kind # "outline"

\* C22: when the stage-3 output cannot be parsed as an outline, also after
\* the continuation attempt, the raw text is stored in outline_raw and no
\* Volume or Chapter row is written.
C22_UnparsedOutlineKeptRaw ==
    EndedUnparsed =>
       /\ outline_raw # NULL
       /\ outline_raw_text = join([i \in DOMAIN og.replies |-> og.replies[i].content], <<>>)
       /\ volume_rows = <<>>
       /\ chapters = <<>>

\* C23: build_context_bundle never fails because of a retrieval failure. When
\* the lorebook scan, the default character / world card lookup or the
\* plot-arc retrieval raises, the bundle is returned all the same, with its
\* recap and with an empty list for the section whose retrieval failed; and
\* the writing stage receives the bundle.
C23_BundleSurvivesRetrievalFailure ==
    /\ bundle_last.op = "build_context_bundle" =>
          /\ bundle_last.raised = "none"
          /\ bundle_last.bundle.previous_context = "recap"
          /\ (bundle_last.scanned /\ "lorebook" \in bundle_last.fails) =>
                /\ bundle_last.bundle.character_memory_cards = <<>>
                /\ bundle_last.bundle.world_memory_cards = <<>>
          /\ (~bundle_last.scanned /\ "characters" \in bundle_last.fails) =>
                bundle_last.bundle.character_memory_cards = <<>>
          /\ (~bundle_last.scanned /\ "world" \in bundle_last.fails) =>
                bundle_last.bundle.world_memory_cards = <<>>
          /\ "plot_arcs" \in bundle_last.fails => bundle_last.bundle.plot_arc_cards = <<>>
    /\ bundle_last.op = "generate_chapter" => bundle_last.raised = "none"

\* C24: the edit operations step_1_update and step_2_update overwrite the
\* edited text only: current_step (and the stage) are what they were before
\* the edit, whatever that was.
C24_EditsKeepCurrentStep ==
    (wf_last.op \in {"step_1_update", "step_2_update"} /\ ~wf_last.raised) =>
        /\ current_step = wf_last.step_before
        /\ workflow_status = wf_last.status_before

\* the planning texts the model distinguishes: "json" is well-formed JSON,
\* "text" is not
WellFormedJson(text) == text = "json"

\* C27: step_1_update with planning text that is not well-formed JSON raises
\* InvalidFormatError instead of storing the text: after a step_1_update that
\* returned, the stored planning text is well-formed JSON.
C27_MalformedPlanRejected ==
    (wf_last.op = "step_1_update" /\ ~wf_last.raised) => WellFormedJson(planning_content)

\* the counts of a serial run over the chapters of the batch, read off the
\* failure pattern: a chapter whose step 4 fails is one failed task and one
\* skip, any other chapter one succeeded step-4 task and a step-5 task that
\* fails or succeeds
SerialCounts(batch, step4_fail, step5_fail) ==
    [succeeded |-> Cardinality(batch \ step4_fail)
                      + Cardinality((batch \ step4_fail) \ step5_fail),
     failed |-> Cardinality(batch \cap step4_fail)
                   + Cardinality((batch \ step4_fail) \cap step5_fail),
     skipped |-> Cardinality(batch \cap step4_fail)]

CountsOf(res) ==
    [succeeded |-> res.succeeded, failed |-> res.failed, skipped |-> res.skipped]

\* C25: a run asked for one worker (or fewer) is carried out by the serial
\* loop itself: no executor future is ever created for it, and the counts it
\* returns are those of a serial run for the mock's pattern of step-4 and
\* step-5 failures
C25_OneWorkerRunIsSerial ==
    (pc # "idle" /\ plan.max_workers = 1) =>
        /\ pc \in {"serial4", "serial5", "returned", "raised"}
        /\ fut4 = NoFutures /\ fut5 = NoFutures
        /\ pc = "returned" =>
              CountsOf(result) = SerialCounts(Targets, orch.step4_fail_ids,
                                              orch.step5_fail_ids)

\* a one-worker run has returned with a step-4 failure, a step-5 failure and
\* a chapter that passed both steps
C25_Witness ==
    /\ pc = "returned"
    /\ plan.max_workers = 1
    /\ result.skipped >= 1
    /\ result.failed >= 2
    /\ result.succeeded >= 1

StrictlyIncreasing(seq) == \A i, j \in DOMAIN seq : i < j => seq[i] < seq[j]

\* the text is empty, or each of its comma-separated items is "N" or "N-M"
\* with N <= M
WellFormedRange(text) ==
    \A i \in DOMAIN chapter_range_parts(text) :
        /\ chapter_range_parts(text)[i].kind # "bad"
        /\ chapter_range_parts(text)[i].start <= chapter_range_parts(text)[i].end

\* the chapters 1..total the items of the text name
NamedChapters(text, total) ==
    IF text = <<>> THEN 1..total
    ELSE {k \in 1..total : \E i \in DOMAIN chapter_range_parts(text) :
             /\ chapter_range_parts(text)[i].start <= k
             /\ k <= chapter_range_parts(text)[i].end}

\* C26: parse_chapter_range on a well-formed text returns, without error,
\* a strictly increasing sequence of indices within 1..total (so without
\* repeats) holding exactly the chapters the text names; on a text with a
\* malformed item or a reversed range it raises
C26_ParsedRangeIsIncreasingAndBounded ==
    range_last.called =>
        IF WellFormedRange(range_text)
           THEN /\ ~range_last.error
                /\ StrictlyIncreasing(range_last.indices)
                /\ \A i \in DOMAIN range_last.indices :
                      range_last.indices[i] \in 1..range_total
                /\ {range_last.indices[i] : i \in DOMAIN range_last.indices}
                      = NamedChapters(range_text, range_total)
           ELSE range_last.error /\ range_last.indices = <<>>

\* "2,1-2" parsed for two chapters: written out of order, with a repeat
C26_Witness ==
    /\ range_last.called
    /\ range_text = <<"2", ",", "1", "-", "2">>
    /\ range_total = 2
    /\ range_last.indices = <<1, 2>>

\* the status changes of the state machine; a resolve of an arc still
\* planted is counted as passing through developing
ArcTransitions ==
    {<<"planted", "developing">>, <<"developing", "resolved">>,
     <<"planted", "resolved">>,
     <<"planted", "abandoned">>, <<"developing", "abandoned">>}

\* C28: a develop, resolve or abandon call that changes the status of an
\* arc makes one of the changes of the state machine; in particular it
\* changes nothing on an arc that is resolved or abandoned
C28_ArcStatusFollowsStateMachine ==
    (arc_last.op \in {"develop", "resolve", "abandon"} /\ arc_last.found
        /\ arc_last.before # arc_last.after) =>
            <<arc_last.before, arc_last.after>> \in ArcTransitions

ActiveProfiles(novel_id) ==
    {i \in DOMAIN profiles : profiles[i].novel_id = novel_id /\ profiles[i].is_active}

\* C29: whatever style-profile calls were made, each project has at most
\* one StyleProfile row with is_active = true
C29_AtMostOneActiveProfile ==
    \A novel_id \in {ThisNovel, OtherNovel} : Cardinality(ActiveProfiles(novel_id)) <= 1

\* the sum of the cost fields of a day's call records
RECURSIVE SumOfCosts(_)
SumOfCosts(calls) ==
    IF calls = <<>> THEN 0 ELSE Head(calls).cost + SumOfCosts(Tail(calls))

\* C30: once every add_cost call in progress has ended, the total_cost the
\* ledger stores for the day equals the sum of the costs of the day's call
\* records
C30_DailyTotalIsSumOfEntries ==
    (AllReturned /\ cur # NoObj) =>
        heap[cur].total_cost = SumOfCosts(heap[cur].calls)

\* WorkflowStatus in the order of the steps: created 0 ... quality_check 6
StageRank(status) ==
    CASE status = "created" -> 0
      [] status = "planning" -> 1
      [] status = "world_building" -> 2
      [] status = "outline" -> 3
      [] status = "detail_outline" -> 4
      [] status = "writing" -> 5
      [] status = "quality_check" -> 6

RankedStages == {"created", "planning", "world_building", "outline",
                 "detail_outline", "writing", "quality_check"}

\* C31: whatever generation and edit operations were called, a project
\* whose stage tag is one of created ... quality_check has current_step at
\* least the rank of the tag
C31_CurrentStepCoversStage ==
    workflow_status \in RankedStages => current_step >= StageRank(workflow_status)

\* a detail outline generated for a project that stood at step 3 has
\* moved the tag and the step together
C31_Witness ==
    /\ wf_last.op = "step_4_detail_outline"
    /\ ~wf_last.raised
    /\ wf_last.step_before = 3
    /\ workflow_status = "detail_outline"
    /\ current_step = 4

\* a future that was submitted and has not finished
Pending == {"queued", "running"}

NoRepeats(seq) == \A i, j \in DOMAIN seq : seq[i] = seq[j] => i = j

\* C32: in a batch every chapter is selected once, so that each phase
\* submits one task for it, and its step-5 task is never pending while its
\* step-4 task is: no chapter is the target of two tasks at a time
C32_OneTaskInFlightPerChapter ==
    /\ NoRepeats(chapter_infos)
    /\ \A c \in ChapterSlots : ~(fut4[c] \in Pending /\ fut5[c] \in Pending)
    /\ \A c \in ChapterSlots : fut5[c] # "none" => fut4[c] \in {"none", "collected"}

\* two workers are writing two chapters at once, every step-4 task over
C32_Witness ==
    /\ pc = "phase2"
    /\ Cardinality(Running(fut5)) = 2
    /\ \A c \in Targets : fut4[c] = "collected"

\* the first reply shows a cut: the provider reported finish_reason = length,
\* or the reply leaves a JSON brace open
DetectedTruncated(reply) ==
    reply.finish_reason = "length" \/ Unclosed(reply.content)

\* C33: one outline generation sends exactly one continuation request when
\* its first reply is truncated (finish_reason = length and/or unclosed JSON
\* braces) and none otherwise; it never makes more than two provider calls.
C33_OneContinuationWhenTruncated ==
    /\ Len(og.sent) <= 2
    /\ (og.pc \in {"returned", "raised"} /\ og.replies # <<>> /\ ~og.replies[1].raised) =>
          Len(og.sent) = (IF DetectedTruncated(og.replies[1]) THEN 2 ELSE 1)

\* the texts of a recap: the lengths in recap_last.texts, added up
RECURSIVE SumOfTexts(_, _)
SumOfTexts(texts, orders) ==
    IF orders = {} THEN 0
    ELSE LET o == CHOOSE x \in orders : TRUE
         IN  texts[o] + SumOfTexts(texts, orders \ {o})

\* C34: the recap spends its budget nearest chapter first: when the budget
\* does not cover every gathered chapter of the window, a chapter appears in
\* the recap only if every gathered chapter nearer to the current one (of a
\* higher order) appears too.
C34_RecapSpendsNearestFirst ==
    (recap_last.op = "build_previous_context"
        /\ DOMAIN recap_last.texts # recap_last.gathered) =>
       \A o \in DOMAIN recap_last.texts :
          \A nearer \in recap_last.gathered :
             nearer > o => nearer \in DOMAIN recap_last.texts

\* C40: the texts of the fragments a recap emits, truncation ellipsis
\* included, add up to at most token_budget * 1.5 characters.
C40_RecapWithinBudget ==
    recap_last.op = "build_previous_context" =>
       2 * SumOfTexts(recap_last.texts, DOMAIN recap_last.texts)
          <= 3 * recap_last.token_budget

\* C35: a rewrite with save=true that overwrites the chapter's body leaves
\* the chapter without a cached summary: the summary made from the superseded
\* body is not left in place.
C35_RewriteInvalidatesSummary ==
    [][(rewrites' = rewrites + 1 /\ rw_last'.save /\ body' # body)
          => ~chapter_summary'.present]_vars

RequestedSteps == {s \in {4, 5} : plan.from_step <= s /\ s <= plan.to_step}

\* C37: in every result a run returns, total is the number of selected
\* chapters, there is exactly one TaskResult for each selected chapter and
\* each requested step of {4, 5} and no other, and succeeded + failed +
\* skipped is the number of task results.
C37_OneTaskResultPerChapterAndStep ==
    pc = "returned" =>
       /\ result.succeeded + result.failed + result.skipped = Len(result.task_results)
       /\ plan.to_step >= 4 =>
             /\ result.total = Len(chapter_infos)
             /\ \A c \in Targets, s \in RequestedSteps : Cardinality(ResultsFor(c, s)) = 1
             /\ Len(result.task_results) = Len(chapter_infos) * Cardinality(RequestedSteps)
       /\ plan.to_step < 4 => result.total = 0 /\ result.task_results = <<>>

\* a parallel run over steps 4 and 5 of every chapter has returned, with a
\* chapter whose step 4 failed and a chapter that passed it
C37_Witness ==
    /\ pc = "returned"
    /\ plan.from_step = 4 /\ plan.to_step = 5 /\ plan.max_workers >= 2
    /\ Len(chapter_infos) = Len(chapters) /\ Len(chapters) >= 2
    /\ result.skipped >= 1 /\ result.failed >= 1 /\ result.succeeded >= 1
    /\ Len(result.task_results) = 2 * result.total

\* the (chapter id, step, success) outcomes of a result
OutcomesOf(res) ==
    {<<res.task_results[i].chapter_id, res.task_results[i].step, res.task_results[i].success>> :
        i \in DOMAIN res.task_results}

\* the outcomes of a run over steps 4 and 5 in which each chapter's tasks end
\* as the failure pattern says: step 4 of every chapter, step 5 failed for
\* those whose step 4 failed, step 5 as the pattern says for the others
PatternOutcomes(batch, step4_fail, step5_fail) ==
    {<<c, 4, c \notin step4_fail>> : c \in batch}
        \cup {<<c, 5, FALSE>> : c \in batch \cap step4_fail}
        \cup {<<c, 5, c \notin step5_fail>> : c \in batch \ step4_fail}

\* C38: whatever the number of workers and the order in which the workers
\* finish, a returned run has the counts and the (chapter id, step, success)
\* outcomes its failure pattern determines; a parallel run therefore has
\* those of the serial run over the same chapters with the same pattern.
C38_ParallelRunMatchesSerial ==
    pc = "returned" =>
       /\ CountsOf(result) = SerialCounts(Targets, orch.step4_fail_ids, orch.step5_fail_ids)
       /\ OutcomesOf(result) = PatternOutcomes(Targets, orch.step4_fail_ids,
                                               orch.step5_fail_ids)

\* a two-worker run has returned whose step-4 tasks were collected in the
\* reverse of the order of submission, with a step-4 failure and a step-5
\* failure
C38_Witness ==
    /\ pc = "returned"
    /\ plan.max_workers >= 2
    /\ chapter_infos = <<1, 2>>
    /\ result.task_results[1].chapter_id = 2
    /\ result.skipped = 1 /\ result.failed = 2 /\ result.succeeded = 1

\* C39: an activation that fails (the profile does not exist or belongs to
\* another project: set_active returns None, activate_style_profile raises)
\* changes no row: the project's active profile stays active.
C39_FailedActivationChangesNothing ==
    [][(style_last'.op \in {"set_active", "activate_style_profile"}
           /\ (style_last'.returned_none \/ style_last'.raised))
          => profiles' = profiles]_vars

====
